---- MODULE Spec2Model ----
(***************************************************************************)
(* Model of ucmt: the migration runner (migrations/runner.py), the         *)
(* migration state stores (migrations/state.py) and the schema differ      *)
(* (schema/diff.py).                                                       *)
(*                                                                         *)
(* Spec       Runner.apply driving an InMemoryMigrationStateStore.         *)
(* SpecStore  direct calls of the MigrationStateStore interface on the     *)
(*            in-memory and the table-backed store.                        *)
(* SpecDiff   SchemaDiffer.diff applied to bounded schema pairs.           *)
(***************************************************************************)
EXTENDS Integers, Sequences, FiniteSets, TLC

(***************************************************************************)
(* Bounds                                                                  *)
(***************************************************************************)
\* highest migration version of the migration directory
MaxVersion == 3

Versions == 1..MaxVersion

\* Python's None
None == "None"

\* number of times migration files are edited after they were written
MaxEdits == 1

\* number of direct calls made on a state store
MaxCalls == 3

\* the number of edits that separate the two schemas handed to diff
MaxSchemaEdits == 2

\* the number of sessions the Databricks session builder hands out
MaxSessions == 2

\* the number of files written to or deleted from the migrations directory
MaxFileEdits == 3

\* the number of tokens of the migration file the run command applies
MaxTokens == 5

\* the number of SQL statements sent to the sessions
MaxStatements == 4

Revisions == 0..MaxEdits

\* a raised exception: its class and its message
Exception(type, msg) == [type |-> type, msg |-> msg]

\* no exception: the call returned
NoException == Exception("None", "None")

\* the state of an apply call that has not raised
Outcome(kind) == Exception(kind, "")

\* str(exc)
str(exc) == exc.msg

\* the exceptions the executor callback can raise
ExecutorErrors == {Exception("RuntimeError", "DB connection failed")}

\* Runner(catalog=..., schema=...)
Catalog == "cat"
SchemaName == "sch"

(***************************************************************************)
(* State                                                                   *)
(***************************************************************************)
VARIABLES
    revision,       \* migration directory: version -> number of edits of the file
    applied,        \* InMemoryMigrationStateStore._applied: version -> AppliedMigration
    now,            \* logical clock read by datetime.now()
    pc,             \* "idle", "loop" (inside Runner.apply) or "done" (apply has ended)
    pending,        \* Runner.apply: the pending migrations not yet iterated
    dry_run,        \* Runner.apply argument
    migrations,     \* Runner.apply argument: the supplied list of MigrationFile
    appliedAtStart, \* the store as it was when the current/last apply was called
    executed,       \* the executor's invocations of the current/last apply: the
                    \* arguments (sql, version) and the exception it raised
    recorded,       \* the record_applied calls of the current/last apply
    outcome,        \* the current/last apply: "none", "running", "returned" or
                    \* the exception it raised
    execCount       \* version -> executor invocations over all applies (saturating at 2)

VARIABLES
    backend,        \* the MigrationStateStore in use: "memory" or "databricks"
    table,          \* the rows of the state table of DatabricksMigrationStateStore
    call            \* the last direct call on the store: arguments, exception
                    \* raised, and list_applied() as it was before the call

runnerVars == <<revision, applied, now, pc, pending, dry_run, migrations,
                appliedAtStart, executed, recorded, outcome, execCount>>

storeVars == <<backend, table, call>>

VARIABLES
    source,     \* the schema read from the database, handed to SchemaDiffer.diff
    target,     \* the declared schema, handed to SchemaDiffer.diff
    changes,    \* the list SchemaDiffer.diff returned
    diffPc,     \* "editing" while the schemas are written, "diffed" after
                \* diff, "generated" after generate
    generated,  \* what MigrationGenerator.generate did with the changes
    schemaEdits \* the number of edits made to the two schemas

diffVars == <<source, target, changes, diffPc, generated, schemaEdits>>

VARIABLES
    session,    \* DatabricksClient._session: NoSession or the id of a session
    inBlock,    \* the with block of the client has been entered and not left
    storePc,    \* the DatabricksMigrationStateStore that owns the client:
                \* "absent", "open", "failed" (__init__ raised) or "closed"
    created,    \* the number of sessions getOrCreate() has returned
    stops,      \* stops[id]: the number of stop() calls on session id
    sqlLog,     \* the statements sent to the sessions, [session, sql]
    config,     \* the names in the Config handed to the store
    clientCall  \* the last call on the client or the store and how it ended

clientVars == <<session, inBlock, storePc, created, stops, sqlLog, config,
                clientCall>>

VARIABLES
    directory,  \* the migrations directory: file name -> content, None when
                \* there is no such file
    fileEdits,  \* the number of files written or deleted so far
    parsePc,    \* "editing" until parse_migrations_dir is called, then "parsed"
    parsed      \* what parse_migrations_dir raised or returned

parseVars == <<directory, fileEdits, parsePc, parsed>>

VARIABLES
    script,     \* the text of the one pending migration file, a sequence of tokens
    runPc,      \* "editing" until the run command is called, then "ran"
    statements, \* the arguments of the client.execute calls of the run, in order
    runRecord   \* the record the run left for the migration: "none", "success",
                \* "failed", or "parse_error" when the file was rejected

runVars == <<script, runPc, statements, runRecord>>

(***************************************************************************)
(* Helpers                                                                 *)
(***************************************************************************)
Range(s) == {s[i] : i \in DOMAIN s}

\* the text of a sequence of tokens
RECURSIVE Text(_)
Text(tokens) == IF tokens = <<>> THEN "" ELSE Head(tokens) \o Text(Tail(tokens))

\* str.replace(old, new) on a text held as a sequence of tokens
Replace(text, old, new) ==
    [i \in DOMAIN text |-> IF text[i] = old THEN new ELSE text[i]]

\* the SQL text of migration file `version` after `rev` edits
SqlOf(version, rev) ==
    <<"CREATE TABLE ", "${catalog}", ".", "${schema}", ".t",
      ToString(version), " -- edit ", ToString(rev), "\n">>

\* parser.py _compute_checksum: the SHA-256 digest, a string, of the content
\* with its line endings normalized; different texts have different digests
compute_checksum(content) ==
    LET normalized == Replace(Replace(content, "\r\n", "\n"), "\r", "\n")
    IN  "sha256:" \o Text(normalized)

NameOf(version) == "create_t"

\* parser.py: MigrationFile(version, name, path, checksum, sql) as
\* parse_migration_file builds it from the file's content
MigrationFile(version, rev) ==
    [version |-> version, name |-> NameOf(version),
     checksum |-> compute_checksum(SqlOf(version, rev)),
     sql |-> SqlOf(version, rev)]

\* sorted(xs, key=lambda m: m.version): stable insertion sort
RECURSIVE InsertByVersion(_, _)
InsertByVersion(sorted, m) ==
    IF sorted = <<>> THEN <<m>>
    ELSE IF Head(sorted).version <= m.version
         THEN <<Head(sorted)>> \o InsertByVersion(Tail(sorted), m)
         ELSE <<m>> \o sorted

RECURSIVE SortedByVersion(_)
SortedByVersion(xs) ==
    IF xs = <<>> THEN <<>>
    ELSE InsertByVersion(SortedByVersion(SubSeq(xs, 1, Len(xs) - 1)), xs[Len(xs)])

(***************************************************************************)
(* InMemoryMigrationStateStore                                             *)
(***************************************************************************)
\* state.py: AppliedMigration
AppliedMigration(version, name, checksum, applied_at, success, error) ==
    [version |-> version, name |-> name, checksum |-> checksum,
     applied_at |-> applied_at, success |-> success, error |-> error]

\* has_applied as it would be if only successful records counted
has_applied_successful(store, version) ==
    version \in DOMAIN store /\ store[version].success

\* InMemoryMigrationStateStore.has_applied
has_applied(store, version) == version \in DOMAIN store

\* InMemoryMigrationStateStore.list_applied
list_applied(store) ==
    SortedByVersion(
        LET RECURSIVE Values(_)
            Values(S) == IF S = {} THEN <<>>
                         ELSE LET v == CHOOSE x \in S : TRUE
                              IN  <<store[v]>> \o Values(S \ {v})
        IN  Values(DOMAIN store))

\* record_applied as it would be if a repeated record replaced the first
record_applied_overwrite(store, version, name, checksum, success, error, clock) ==
    IF version \in DOMAIN store /\ store[version].checksum # checksum
    THEN [store |-> store,
          raised |-> Exception("MigrationStateConflictError",
                               "Migration " \o ToString(version)
                               \o " already recorded with checksum "
                               \o store[version].checksum
                               \o ", but attempted to record with checksum "
                               \o checksum)]
    ELSE [store |-> [v \in DOMAIN store \cup {version} |->
                        IF v = version
                        THEN AppliedMigration(version, name, checksum, clock,
                                              success, error)
                        ELSE store[v]],
          raised |-> NoException]

\* InMemoryMigrationStateStore.record_applied: the store afterwards and the
\* exception raised (None when it returns)
record_applied(store, version, name, checksum, success, error, clock) ==
    IF version \in DOMAIN store
    THEN IF store[version].checksum # checksum
         THEN [store |-> store,
               raised |-> Exception("MigrationStateConflictError",
                                    "Migration " \o ToString(version)
                                    \o " already recorded with checksum "
                                    \o store[version].checksum
                                    \o ", but attempted to record with checksum "
                                    \o checksum)]
         ELSE [store |-> store, raised |-> NoException]
    ELSE [store |-> [v \in DOMAIN store \cup {version} |->
                        IF v = version
                        THEN AppliedMigration(version, name, checksum, clock,
                                              success, error)
                        ELSE store[v]],
          raised |-> NoException]

(***************************************************************************)
(* DatabricksMigrationStateStore.  The store is open: its client is        *)
(* connected and the state table exists (__init__).  A row of the table    *)
(* holds the columns version, name, checksum, applied_at, success, error.  *)
(***************************************************************************)
\* SELECT ... FROM state_table WHERE version = {version}
SelectByVersion(rows, version) ==
    SelectSeq(rows, LAMBDA row : row.version = version)

\* DatabricksMigrationStateStore._get_by_version: the first row, None when
\* there is none
get_by_version(rows, version) ==
    LET found == SelectByVersion(rows, version)
    IN  IF found = <<>> THEN <<>> ELSE <<found[1]>>

\* DatabricksMigrationStateStore.has_applied
db_has_applied(rows, version) == Len(SelectByVersion(rows, version)) > 0

\* DatabricksMigrationStateStore.list_applied: SELECT ... ORDER BY version ASC
db_list_applied(rows) == SortedByVersion(rows)

\* the INSERT statement of record_applied: a row of the quoted values, with
\* current_timestamp() for applied_at and NULL for a missing error
InsertRow(rows, version, name, checksum, success, error, clock) ==
    Append(rows, AppliedMigration(version, name, checksum, clock, success, error))

\* db_record_applied as it would be if a conflicting record were inserted
\* instead of rejected
db_record_applied_upsert(rows, version, name, checksum, success, error, clock) ==
    LET existing == get_by_version(rows, version)
    IN  IF existing # <<>> /\ existing[1].checksum = checksum
        THEN [store |-> rows, raised |-> NoException]
        ELSE [store |-> InsertRow(rows, version, name, checksum, success,
                                  error, clock),
              raised |-> NoException]

\* DatabricksMigrationStateStore.record_applied: the table afterwards and
\* the exception raised
db_record_applied(rows, version, name, checksum, success, error, clock) ==
    LET existing == get_by_version(rows, version)
    IN  IF existing # <<>>
        THEN IF existing[1].checksum # checksum
             THEN [store |-> rows,
                   raised |-> Exception("MigrationStateConflictError",
                                        "Migration " \o ToString(version)
                                        \o " already recorded with checksum "
                                        \o existing[1].checksum
                                        \o ", but attempted to record with checksum "
                                        \o checksum)]
             ELSE [store |-> rows, raised |-> NoException]
        ELSE [store |-> InsertRow(rows, version, name, checksum, success,
                                  error, clock),
              raised |-> NoException]

(***************************************************************************)
(* runner.py                                                               *)
(***************************************************************************)
\* runner.py: PendingMigration built from a MigrationFile
PendingMigration(mf) ==
    [version |-> mf.version, name |-> mf.name,
     checksum |-> mf.checksum, sql |-> mf.sql]

\* PendingOf as it would be without the has_applied test
RECURSIVE PendingOfAll(_, _)
PendingOfAll(sorted, store) ==
    IF sorted = <<>> THEN <<>>
    ELSE <<PendingMigration(Head(sorted))>> \o PendingOfAll(Tail(sorted), store)

\* runner.py plan(), the loop over the sorted files: those already recorded
\* are left out
RECURSIVE PendingOf(_, _)
PendingOf(sorted, store) ==
    IF sorted = <<>> THEN <<>>
    ELSE IF ~has_applied(store, Head(sorted).version)
         THEN <<PendingMigration(Head(sorted))>> \o PendingOf(Tail(sorted), store)
         ELSE PendingOf(Tail(sorted), store)

\* plan as it would be without sorted()
plan_unsorted(migs, store) == PendingOf(migs, store)

\* runner.py plan()
plan(migs, store) == PendingOf(SortedByVersion(migs), store)

\* _substitute_variables as it would be if it resolved ${catalog} only
substitute_variables_catalog_only(sql) ==
    Replace(sql, "${catalog}", Catalog)

\* Runner._substitute_variables
substitute_variables(sql) ==
    Replace(Replace(sql, "${catalog}", Catalog), "${schema}", SchemaName)

\* Runner._check_checksums: the supplied files, in the order supplied, whose
\* version is recorded with another checksum
Mismatches(migs, store) ==
    SelectSeq(migs, LAMBDA mf : /\ mf.version \in DOMAIN store
                                /\ store[mf.version].checksum # mf.checksum)

\* _check_checksums as it would be if it looked at the first file only
check_checksums_first_only(migs, store) ==
    /\ migs # <<>>
    /\ migs[1].version \in DOMAIN store
    /\ store[migs[1].version].checksum # migs[1].checksum

\* Runner._check_checksums: TRUE when it raises
check_checksums_raises(migs, store) == Mismatches(migs, store) # <<>>

\* Runner._check_checksums: the exception it raises, for the first mismatch
check_checksums_error(migs, store) ==
    LET mf == Head(Mismatches(migs, store))
        onRecord == store[mf.version]
    IN  Exception("MigrationChecksumMismatchError",
                  "Migration V" \o ToString(mf.version) \o "__" \o mf.name
                  \o " checksum mismatch: recorded=" \o onRecord.checksum
                  \o ", file=" \o mf.checksum)

\* the arguments of one record_applied call
RecordCall(version, name, checksum, success, error) ==
    [version |-> version, name |-> name, checksum |-> checksum,
     success |-> success, error |-> error]

\* apply_iteration as it would be without the `raise` of the except block
apply_iteration_swallow(store, pm, exc, clock) ==
    LET success == (exc = NoException)
        error   == IF success THEN None ELSE str(exc)
        res     == record_applied(store, pm.version, pm.name, pm.checksum,
                                  success, error, clock)
    IN  [store |-> res.store,
         calls |-> <<RecordCall(pm.version, pm.name, pm.checksum, success, error)>>,
         raised |-> res.raised]

\* Runner.apply, one iteration of the non-dry-run loop body (the try/except
\* around executor and record_applied).  exc is the exception the executor
\* raised, NoException when it returned.
apply_iteration(store, pm, exc, clock) ==
    LET ok    == record_applied(store, pm.version, pm.name, pm.checksum,
                                TRUE, None, clock)
        okCall == RecordCall(pm.version, pm.name, pm.checksum, TRUE, None)
    IN  IF exc = NoException /\ ok.raised = NoException
        THEN [store |-> ok.store, calls |-> <<okCall>>, raised |-> NoException]
        ELSE LET caught == IF exc # NoException THEN exc ELSE ok.raised
                 before == IF exc # NoException THEN store ELSE ok.store
                 first  == IF exc # NoException THEN <<>> ELSE <<okCall>>
                 failed == record_applied(before, pm.version, pm.name,
                                          pm.checksum, FALSE, str(caught), clock)
             IN  [store |-> failed.store,
                  calls |-> first \o <<RecordCall(pm.version, pm.name,
                                                  pm.checksum, FALSE,
                                                  str(caught))>>,
                  raised |-> IF failed.raised # NoException THEN failed.raised
                             ELSE caught]

\* record_applied of a store whose statements can fail (the fetchall and
\* execute of DatabricksMigrationStateStore.record_applied): `answer` is the
\* exception the statement raises, NoException when it goes through; a call
\* that raises leaves the records as they were
record_applied_raising(store, version, name, checksum, success, error, clock, answer) ==
    IF answer # NoException
    THEN [store |-> store, raised |-> answer]
    ELSE record_applied(store, version, name, checksum, success, error, clock)

\* the try/except of Runner.apply for one pending migration, on a store whose
\* record_applied can raise: okAnswer is what the store does to the call with
\* success=True, failAnswer what it does to the call with success=False
apply_iteration_raising(store, pm, exc, clock, okAnswer, failAnswer) ==
    LET ok    == record_applied_raising(store, pm.version, pm.name, pm.checksum,
                                        TRUE, None, clock, okAnswer)
        okCall == RecordCall(pm.version, pm.name, pm.checksum, TRUE, None)
    IN  IF exc = NoException /\ ok.raised = NoException
        THEN [store |-> ok.store, calls |-> <<okCall>>, raised |-> NoException]
        ELSE LET caught == IF exc # NoException THEN exc ELSE ok.raised
                 before == IF exc # NoException THEN store ELSE ok.store
                 first  == IF exc # NoException THEN <<>> ELSE <<okCall>>
                 failed == record_applied_raising(before, pm.version, pm.name,
                                                  pm.checksum, FALSE, str(caught),
                                                  clock, failAnswer)
             IN  [store |-> failed.store,
                  calls |-> first \o <<RecordCall(pm.version, pm.name,
                                                  pm.checksum, FALSE,
                                                  str(caught))>>,
                  raised |-> IF failed.raised # NoException THEN failed.raised
                             ELSE caught]

\* the lists of files a caller can pass to Runner.apply: any selection of
\* the directory's files in any order, one file per version
Orders ==
    {s \in UNION {[1..n -> Versions] : n \in 0..MaxVersion} :
        \A i, j \in DOMAIN s : i # j => s[i] # s[j]}

Bump(n) == IF n < 2 THEN n + 1 ELSE 2

(***************************************************************************)
(* schema/models.py                                                        *)
(***************************************************************************)
\* an Optional value: <<>> for None, <<x>> for x
Some(x) == <<x>>
Nothing == <<>>

\* a SQL type text as the sequence of its tokens, e.g. <<"DECIMAL", "(", "10,2", ")">>
\* str.upper() of a word
UpperWord(w) ==
    CASE w = "int" -> "INT"
      [] w = "bigint" -> "BIGINT"
      [] w = "string" -> "STRING"
      [] w = "decimal" -> "DECIMAL"
      [] OTHER -> w

\* str.upper() of a type text
upper(type) == [i \in DOMAIN type |-> UpperWord(type[i])]

\* text.split("(")[0]: the tokens before the first parenthesis
RECURSIVE BeforeParen(_)
BeforeParen(type) ==
    IF type = <<>> \/ Head(type) = "(" THEN <<>>
    ELSE <<Head(type)>> \o BeforeParen(Tail(type))

\* str.strip(): the text without its leading and trailing blanks
RECURSIVE lstrip(_)
lstrip(text) ==
    IF text # <<>> /\ Head(text) = " " THEN lstrip(Tail(text)) ELSE text

RECURSIVE strip(_)
strip(text) ==
    IF text # <<>> /\ text[Len(text)] = " "
    THEN strip(SubSeq(text, 1, Len(text) - 1))
    ELSE lstrip(text)

\* models.py: Column; __post_init__ strips the type
Column(name, type, nullable, default) ==
    [name |-> name, type |-> strip(type), nullable |-> nullable,
     default |-> default,
     generated |-> None, check |-> None, foreign_key |-> None, comment |-> None]

\* models.py: PrimaryKey
PrimaryKey(columns, rely) == [columns |-> columns, rely |-> rely]

\* models.py: CheckConstraint
CheckConstraint(name, expression) == [name |-> name, expression |-> expression]

\* models.py: Table
Table(name, columns) ==
    [name |-> name, columns |-> columns, primary_key |-> Nothing,
     check_constraints |-> <<>>, liquid_clustering |-> <<>>,
     partitioned_by |-> <<>>, table_properties |-> <<>>, comment |-> None]

\* {x.name: x for x in xs}: the last element of each name
ByName(xs) ==
    [n \in {xs[i].name : i \in DOMAIN xs} |->
        xs[CHOOSE i \in DOMAIN xs :
              /\ xs[i].name = n
              /\ \A j \in DOMAIN xs : xs[j].name = n => j <= i]]

\* Table.__eq__: the order of columns, clustering and partition columns is
\* not significant
table_eq(self, other) ==
    /\ self.name = other.name
    /\ self.primary_key = other.primary_key
    /\ ByName(self.check_constraints) = ByName(other.check_constraints)
    /\ Range(self.liquid_clustering) = Range(other.liquid_clustering)
    /\ Range(self.partitioned_by) = Range(other.partitioned_by)
    /\ self.table_properties = other.table_properties
    /\ self.comment = other.comment
    /\ ByName(self.columns) = ByName(other.columns)

\* Schema.__eq__ of the dataclass: the same names with equal tables
schema_eq(self, other) ==
    /\ DOMAIN self = DOMAIN other
    /\ \A name \in DOMAIN self : table_eq(self[name], other[name])

\* Schema.table_names
table_names(schema) == DOMAIN schema

\* Schema.get_table
get_table(schema, name) == schema[name]

(***************************************************************************)
(* schema/diff.py                                                          *)
(***************************************************************************)
\* diff.py: SchemaChange
SchemaChange(change_type, table_name, details) ==
    [change_type |-> change_type, table_name |-> table_name,
     details |-> details, is_destructive |-> FALSE, is_unsupported |-> FALSE,
     requires_column_mapping |-> FALSE, error_message |-> None]

\* iterating a Python set: its elements in the order the hash order `ord`
\* (a sequence holding every possible element once) puts them
Iterate(S, ord) == SelectSeq(ord, LAMBDA x : x \in S)

\* the concatenation of f[x] over the sequence xs
RECURSIVE FlatMap(_, _)
FlatMap(f, xs) ==
    IF xs = <<>> THEN <<>> ELSE f[Head(xs)] \o FlatMap(f, Tail(xs))

\* SchemaDiffer._validate_type_change: <<valid, error>>
validate_type_change(from_type, to_type) ==
    LET widening_allowed ==
            {<<"INT", "BIGINT">>, <<"SMALLINT", "INT">>, <<"SMALLINT", "BIGINT">>,
             <<"TINYINT", "SMALLINT">>, <<"TINYINT", "INT">>,
             <<"TINYINT", "BIGINT">>, <<"FLOAT", "DOUBLE">>}
        from_upper == Text(BeforeParen(upper(from_type)))
        to_upper   == Text(BeforeParen(upper(to_type)))
    IN  IF <<from_upper, to_upper>> \in widening_allowed THEN <<TRUE, None>>
        ELSE IF from_upper = to_upper THEN <<TRUE, None>>
        ELSE <<FALSE, "Type change from " \o Text(from_type) \o " to "
                      \o Text(to_type) \o " is not supported. "
                      \o "Only widening conversions are allowed.">>

\* SchemaDiffer._diff_column
diff_column(table_name, src, tgt) ==
    (IF upper(src.type) # upper(tgt.type)
     THEN LET v == validate_type_change(src.type, tgt.type)
          IN  <<[SchemaChange("ALTER_COLUMN_TYPE", table_name,
                              [column_name |-> src.name, from_type |-> src.type,
                               to_type |-> tgt.type])
                 EXCEPT !.is_unsupported = ~v[1], !.error_message = v[2]]>>
     ELSE <<>>)
    \o
    (IF src.nullable # tgt.nullable
     THEN <<SchemaChange("ALTER_COLUMN_NULLABILITY", table_name,
                         [column_name |-> src.name, from_nullable |-> src.nullable,
                          to_nullable |-> tgt.nullable])>>
     ELSE <<>>)
    \o
    (IF src.default # tgt.default
     THEN <<SchemaChange("ALTER_COLUMN_DEFAULT", table_name,
                         [column_name |-> src.name, from_default |-> src.default,
                          to_default |-> tgt.default])>>
     ELSE <<>>)

\* _diff_columns as it would be if a dropped column were an ordinary change
diff_columns_unflagged_drop(src, tgt, ord) ==
    LET table_name  == src.name
        source_cols == ByName(src.columns)
        target_cols == ByName(tgt.columns)
        Add == [col_name \in DOMAIN target_cols \ DOMAIN source_cols |->
            <<SchemaChange("ADD_COLUMN", table_name,
                           [column |-> target_cols[col_name]])>>]
        Drop == [col_name \in DOMAIN source_cols \ DOMAIN target_cols |->
            <<SchemaChange("DROP_COLUMN", table_name,
                           [column_name |-> col_name])>>]
        Alter == [col_name \in DOMAIN source_cols \cap DOMAIN target_cols |->
            diff_column(table_name, source_cols[col_name], target_cols[col_name])]
    IN  FlatMap(Add, Iterate(DOMAIN target_cols \ DOMAIN source_cols, ord.columns))
        \o FlatMap(Drop, Iterate(DOMAIN source_cols \ DOMAIN target_cols, ord.columns))
        \o FlatMap(Alter, Iterate(DOMAIN source_cols \cap DOMAIN target_cols,
                                  ord.columns))

\* SchemaDiffer._diff_columns
diff_columns(src, tgt, ord) ==
    LET table_name  == src.name
        source_cols == ByName(src.columns)
        target_cols == ByName(tgt.columns)
        Add == [col_name \in DOMAIN target_cols \ DOMAIN source_cols |->
            <<SchemaChange("ADD_COLUMN", table_name,
                           [column |-> target_cols[col_name]])>>]
        Drop == [col_name \in DOMAIN source_cols \ DOMAIN target_cols |->
            <<[SchemaChange("DROP_COLUMN", table_name,
                            [column_name |-> col_name])
               EXCEPT !.is_destructive = TRUE, !.requires_column_mapping = TRUE]>>]
        Alter == [col_name \in DOMAIN source_cols \cap DOMAIN target_cols |->
            diff_column(table_name, source_cols[col_name], target_cols[col_name])]
    IN  FlatMap(Add, Iterate(DOMAIN target_cols \ DOMAIN source_cols, ord.columns))
        \o FlatMap(Drop, Iterate(DOMAIN source_cols \ DOMAIN target_cols, ord.columns))
        \o FlatMap(Alter, Iterate(DOMAIN source_cols \cap DOMAIN target_cols,
                                  ord.columns))

\* _diff_constraints as it would be if primary keys were compared by their
\* set of columns
diff_constraints_key_as_set(src, tgt, ord) ==
    LET source_checks == ByName(src.check_constraints)
        target_checks == ByName(tgt.check_constraints)
        AddCheck == [name \in DOMAIN target_checks \ DOMAIN source_checks |->
            <<SchemaChange("ADD_CHECK_CONSTRAINT", src.name,
                           [constraint |-> target_checks[name]])>>]
        DropCheck == [name \in DOMAIN source_checks \ DOMAIN target_checks |->
            <<SchemaChange("DROP_CHECK_CONSTRAINT", src.name,
                           [constraint_name |-> name])>>]
    IN  (IF {Range(pk.columns) : pk \in Range(src.primary_key)}
               # {Range(pk.columns) : pk \in Range(tgt.primary_key)}
         THEN (IF src.primary_key # Nothing
               THEN <<SchemaChange("DROP_PRIMARY_KEY", src.name,
                                   [constraint |-> src.primary_key[1]])>>
               ELSE <<>>)
              \o
              (IF tgt.primary_key # Nothing
               THEN <<SchemaChange("SET_PRIMARY_KEY", src.name,
                                   [constraint |-> tgt.primary_key[1]])>>
               ELSE <<>>)
         ELSE <<>>)
        \o FlatMap(AddCheck, Iterate(DOMAIN target_checks \ DOMAIN source_checks,
                                     ord.checks))
        \o FlatMap(DropCheck, Iterate(DOMAIN source_checks \ DOMAIN target_checks,
                                      ord.checks))

\* SchemaDiffer._diff_constraints
diff_constraints(src, tgt, ord) ==
    LET source_checks == ByName(src.check_constraints)
        target_checks == ByName(tgt.check_constraints)
        AddCheck == [name \in DOMAIN target_checks \ DOMAIN source_checks |->
            <<SchemaChange("ADD_CHECK_CONSTRAINT", src.name,
                           [constraint |-> target_checks[name]])>>]
        DropCheck == [name \in DOMAIN source_checks \ DOMAIN target_checks |->
            <<SchemaChange("DROP_CHECK_CONSTRAINT", src.name,
                           [constraint_name |-> name])>>]
    IN  (IF src.primary_key # tgt.primary_key
         THEN (IF src.primary_key # Nothing
               THEN <<SchemaChange("DROP_PRIMARY_KEY", src.name,
                                   [constraint |-> src.primary_key[1]])>>
               ELSE <<>>)
              \o
              (IF tgt.primary_key # Nothing
               THEN <<SchemaChange("SET_PRIMARY_KEY", src.name,
                                   [constraint |-> tgt.primary_key[1]])>>
               ELSE <<>>)
         ELSE <<>>)
        \o FlatMap(AddCheck, Iterate(DOMAIN target_checks \ DOMAIN source_checks,
                                     ord.checks))
        \o FlatMap(DropCheck, Iterate(DOMAIN source_checks \ DOMAIN target_checks,
                                      ord.checks))

\* a comparison of the clustering columns as lists
diff_clustering_ordered(src, tgt) ==
    IF src.liquid_clustering # tgt.liquid_clustering
    THEN <<SchemaChange("ALTER_CLUSTERING", src.name,
                        [from_columns |-> src.liquid_clustering,
                         to_columns |-> tgt.liquid_clustering])>>
    ELSE <<>>

\* SchemaDiffer._diff_clustering
diff_clustering(src, tgt) ==
    IF Range(src.liquid_clustering) # Range(tgt.liquid_clustering)
    THEN <<SchemaChange("ALTER_CLUSTERING", src.name,
                        [from_columns |-> src.liquid_clustering,
                         to_columns |-> tgt.liquid_clustering])>>
    ELSE <<>>

\* repr() of a list of strings, as an f-string prints it
RECURSIVE ReprItems(_)
ReprItems(xs) ==
    IF xs = <<>> THEN ""
    ELSE "'" \o Head(xs) \o "'"
         \o (IF Tail(xs) = <<>> THEN "" ELSE ", " \o ReprItems(Tail(xs)))

Repr(xs) == "[" \o ReprItems(xs) \o "]"

\* SchemaDiffer._diff_partitioning: the error message
partitioning_error(src, tgt) ==
    "Cannot change partitioning for table '" \o src.name
    \o "'. Current: " \o Repr(src.partitioned_by)
    \o ", Desired: " \o Repr(tgt.partitioned_by) \o ". "
    \o "Delta Lake does not support changing partition columns. "
    \o "You must recreate the table."

\* a comparison of the partition columns as lists
diff_partitioning_ordered(src, tgt) ==
    IF src.partitioned_by # tgt.partitioned_by
    THEN <<[SchemaChange("ALTER_PARTITIONING", src.name,
                         [from_columns |-> src.partitioned_by,
                          to_columns |-> tgt.partitioned_by])
            EXCEPT !.is_unsupported = TRUE,
                   !.error_message = partitioning_error(src, tgt)]>>
    ELSE <<>>

\* SchemaDiffer._diff_partitioning
diff_partitioning(src, tgt) ==
    IF Range(src.partitioned_by) # Range(tgt.partitioned_by)
    THEN <<[SchemaChange("ALTER_PARTITIONING", src.name,
                         [from_columns |-> src.partitioned_by,
                          to_columns |-> tgt.partitioned_by])
            EXCEPT !.is_unsupported = TRUE,
                   !.error_message = partitioning_error(src, tgt)]>>
    ELSE <<>>

\* a diff of the properties that also unsets the keys the target dropped
diff_properties_sync(src, tgt) ==
    LET changed_keys ==
            {key \in DOMAIN tgt.table_properties :
                \/ key \notin DOMAIN src.table_properties
                \/ src.table_properties[key] # tgt.table_properties[key]}
        dropped_keys == DOMAIN src.table_properties \ DOMAIN tgt.table_properties
        changed_props ==
            [key \in changed_keys \cup dropped_keys |->
                IF key \in changed_keys THEN tgt.table_properties[key] ELSE None]
    IN  IF changed_keys \cup dropped_keys # {}
        THEN <<SchemaChange("ALTER_TABLE_PROPERTIES", src.name,
                            [properties |-> changed_props])>>
        ELSE <<>>

\* SchemaDiffer._diff_properties
diff_properties(src, tgt) ==
    LET changed_keys ==
            {key \in DOMAIN tgt.table_properties :
                \/ key \notin DOMAIN src.table_properties
                \/ src.table_properties[key] # tgt.table_properties[key]}
        changed_props == [key \in changed_keys |-> tgt.table_properties[key]]
    IN  IF changed_keys # {}
        THEN <<SchemaChange("ALTER_TABLE_PROPERTIES", src.name,
                            [properties |-> changed_props])>>
        ELSE <<>>

\* SchemaDiffer._diff_table
diff_table(src, tgt, ord) ==
    diff_columns(src, tgt, ord)
    \o diff_constraints(src, tgt, ord)
    \o diff_clustering(src, tgt)
    \o diff_partitioning(src, tgt)
    \o diff_properties(src, tgt)

\* SchemaDiffer._order_changes: the order dictionary, 99 for other kinds
Priority(change_type) ==
    CASE change_type = "CREATE_TABLE" -> 0
      [] change_type = "ADD_COLUMN" -> 1
      [] change_type \in {"ALTER_COLUMN_TYPE", "ALTER_COLUMN_NULLABILITY",
                          "ALTER_COLUMN_DEFAULT"} -> 2
      [] change_type \in {"SET_PRIMARY_KEY", "ADD_FOREIGN_KEY",
                          "ADD_CHECK_CONSTRAINT"} -> 3
      [] change_type \in {"ALTER_CLUSTERING", "ALTER_TABLE_PROPERTIES"} -> 4
      [] change_type \in {"DROP_CHECK_CONSTRAINT", "DROP_FOREIGN_KEY",
                          "DROP_PRIMARY_KEY"} -> 5
      [] change_type = "DROP_COLUMN" -> 6
      [] change_type = "DROP_TABLE" -> 7
      [] OTHER -> 99

\* an insertion that puts a change before the changes of its own priority
RECURSIVE InsertBeforeEquals(_, _)
InsertBeforeEquals(sorted, c) ==
    IF sorted = <<>> THEN <<c>>
    ELSE IF Priority(Head(sorted).change_type) < Priority(c.change_type)
         THEN <<Head(sorted)>> \o InsertBeforeEquals(Tail(sorted), c)
         ELSE <<c>> \o sorted

\* sorted(changes, key=...): stable insertion sort by priority
RECURSIVE InsertByPriority(_, _)
InsertByPriority(sorted, c) ==
    IF sorted = <<>> THEN <<c>>
    ELSE IF Priority(Head(sorted).change_type) <= Priority(c.change_type)
         THEN <<Head(sorted)>> \o InsertByPriority(Tail(sorted), c)
         ELSE <<c>> \o sorted

RECURSIVE order_changes(_)
order_changes(cs) ==
    IF cs = <<>> THEN <<>>
    ELSE InsertByPriority(order_changes(SubSeq(cs, 1, Len(cs) - 1)), cs[Len(cs)])

\* SchemaDiffer.diff; ord is the iteration order of the sets of names
diff(src, tgt, ord) ==
    LET source_tables == table_names(src)
        target_tables == table_names(tgt)
        Create == [table_name \in target_tables \ source_tables |->
            <<SchemaChange("CREATE_TABLE", table_name,
                           [table |-> get_table(tgt, table_name)])>>]
        DropTable == [table_name \in source_tables \ target_tables |->
            <<[SchemaChange("DROP_TABLE", table_name, <<>>)
               EXCEPT !.is_destructive = TRUE]>>]
        Both == [table_name \in source_tables \cap target_tables |->
            diff_table(get_table(src, table_name), get_table(tgt, table_name), ord)]
    IN  order_changes(
            FlatMap(Create, Iterate(target_tables \ source_tables, ord.tables))
            \o FlatMap(DropTable, Iterate(source_tables \ target_tables, ord.tables))
            \o FlatMap(Both, Iterate(source_tables \cap target_tables, ord.tables)))

(***************************************************************************)
(* schema/codegen.py                                                       *)
(***************************************************************************)
\* types.py: ChangeType.<name>.value
value(change_type) ==
    CASE change_type = "CREATE_TABLE" -> "create_table"
      [] change_type = "DROP_TABLE" -> "drop_table"
      [] change_type = "ADD_COLUMN" -> "add_column"
      [] change_type = "DROP_COLUMN" -> "drop_column"
      [] change_type = "ALTER_COLUMN_TYPE" -> "alter_column_type"
      [] change_type = "ALTER_COLUMN_NULLABILITY" -> "alter_column_nullability"
      [] change_type = "ALTER_COLUMN_DEFAULT" -> "alter_column_default"
      [] change_type = "SET_PRIMARY_KEY" -> "set_primary_key"
      [] change_type = "DROP_PRIMARY_KEY" -> "drop_primary_key"
      [] change_type = "ADD_FOREIGN_KEY" -> "add_foreign_key"
      [] change_type = "DROP_FOREIGN_KEY" -> "drop_foreign_key"
      [] change_type = "ADD_CHECK_CONSTRAINT" -> "add_check_constraint"
      [] change_type = "DROP_CHECK_CONSTRAINT" -> "drop_check_constraint"
      [] change_type = "ALTER_CLUSTERING" -> "alter_clustering"
      [] change_type = "ALTER_PARTITIONING" -> "alter_partitioning"
      [] change_type = "ALTER_TABLE_PROPERTIES" -> "alter_table_properties"

\* codegen.py _escape_sql_string: every single quote doubled
escape_sql_string(v) ==
    CASE v = "it's" -> "it''s"
      [] OTHER -> v

\* the truth value Python gives an Optional[str]
Truthy(x) == x \notin {None, ""}

\* sep.join(xs)
RECURSIVE Join(_, _)
Join(xs, sep) ==
    IF xs = <<>> THEN ""
    ELSE IF Len(xs) = 1 THEN xs[1]
    ELSE xs[1] \o sep \o Join(Tail(xs), sep)

\* the result of a call: the exception it raised, or the text it returned
Raised(type, msg) == [raised |-> Exception(type, msg), text |-> None]
Returned(text) == [raised |-> NoException, text |-> text]

\* MigrationGenerator._fqn
fqn(table_name) == "${catalog}.${schema}." \o table_name

\* "'k' = 'v'" for the items of a dictionary, in its order `keys`
PropertiesSql(props, keys) ==
    Join([i \in DOMAIN keys |->
             "'" \o keys[i] \o "' = '" \o escape_sql_string(props[keys[i]]) \o "'"],
         ", ")

\* MigrationGenerator._gen_create_table
gen_create_table(change, ord) ==
    LET tbl == change.details.table
        ColDef(col) ==
            "    " \o col.name \o " " \o Text(col.type)
            \o (IF Truthy(col.generated) THEN " GENERATED " \o col.generated ELSE "")
            \o (IF ~col.nullable THEN " NOT NULL" ELSE "")
            \o (IF Truthy(col.default) THEN " DEFAULT " \o col.default ELSE "")
            \o (IF Truthy(col.comment)
                THEN " COMMENT '" \o escape_sql_string(col.comment) \o "'" ELSE "")
        col_defs ==
            [i \in DOMAIN tbl.columns |-> ColDef(tbl.columns[i])]
            \o (IF tbl.primary_key # Nothing
                THEN <<"    CONSTRAINT pk_" \o tbl.name \o " PRIMARY KEY ("
                       \o Join(tbl.primary_key[1].columns, ", ") \o ")"
                       \o (IF tbl.primary_key[1].rely THEN " RELY" ELSE " NORELY")>>
                ELSE <<>>)
    IN  Returned(
            "CREATE TABLE IF NOT EXISTS " \o fqn(tbl.name) \o " (\n"
            \o Join(col_defs, ",\n") \o "\n) USING DELTA"
            \o (IF tbl.liquid_clustering # <<>>
                THEN "\nCLUSTER BY (" \o Join(tbl.liquid_clustering, ", ") \o ")"
                ELSE IF tbl.partitioned_by # <<>>
                THEN "\nPARTITIONED BY (" \o Join(tbl.partitioned_by, ", ") \o ")"
                ELSE "")
            \o (IF DOMAIN tbl.table_properties # {}
                THEN "\nTBLPROPERTIES ("
                     \o PropertiesSql(tbl.table_properties,
                                      Iterate(DOMAIN tbl.table_properties,
                                              ord.properties))
                     \o ")"
                ELSE "")
            \o (IF Truthy(tbl.comment)
                THEN "\nCOMMENT '" \o escape_sql_string(tbl.comment) \o "'" ELSE "")
            \o ";")

\* MigrationGenerator._gen_add_column
gen_add_column(change) ==
    LET col == change.details.column
    IN  IF ~col.nullable /\ ~Truthy(col.default)
        THEN Raised("CodegenError",
                    "Cannot add non-nullable column '" \o col.name
                    \o "' without a default.")
        ELSE Returned(
                "ALTER TABLE " \o fqn(change.table_name)
                \o " ADD COLUMN IF NOT EXISTS " \o col.name \o " " \o Text(col.type)
                \o (IF ~col.nullable THEN " NOT NULL" ELSE "")
                \o (IF Truthy(col.default) THEN " DEFAULT " \o col.default ELSE "")
                \o (IF Truthy(col.comment)
                    THEN " COMMENT '" \o escape_sql_string(col.comment) \o "'"
                    ELSE "")
                \o ";")

\* MigrationGenerator._gen_drop_column
gen_drop_column(change) ==
    Returned("ALTER TABLE " \o fqn(change.table_name) \o " DROP COLUMN IF EXISTS "
             \o change.details.column_name \o ";")

\* MigrationGenerator._gen_alter_column_type
gen_alter_column_type(change) ==
    Returned("ALTER TABLE " \o fqn(change.table_name) \o " ALTER COLUMN "
             \o change.details.column_name \o " TYPE "
             \o Text(change.details.to_type) \o ";")

\* MigrationGenerator._gen_alter_nullability
gen_alter_nullability(change) ==
    Returned("ALTER TABLE " \o fqn(change.table_name) \o " ALTER COLUMN "
             \o change.details.column_name
             \o (IF change.details.to_nullable
                 THEN " DROP NOT NULL;" ELSE " SET NOT NULL;"))

\* MigrationGenerator._gen_alter_default
gen_alter_default(change) ==
    Returned("ALTER TABLE " \o fqn(change.table_name) \o " ALTER COLUMN "
             \o change.details.column_name
             \o (IF Truthy(change.details.to_default)
                 THEN " SET DEFAULT " \o change.details.to_default \o ";"
                 ELSE " DROP DEFAULT;"))

\* MigrationGenerator._gen_add_check
gen_add_check(change) ==
    Returned("ALTER TABLE " \o fqn(change.table_name) \o " ADD CONSTRAINT "
             \o change.details.constraint.name \o " CHECK ("
             \o change.details.constraint.expression \o ");")

\* MigrationGenerator._gen_drop_check
gen_drop_check(change) ==
    Returned("ALTER TABLE " \o fqn(change.table_name)
             \o " DROP CONSTRAINT IF EXISTS " \o change.details.constraint_name
             \o ";")

\* MigrationGenerator._gen_set_pk
gen_set_pk(change) ==
    Returned("ALTER TABLE " \o fqn(change.table_name) \o " ADD CONSTRAINT pk_"
             \o change.table_name \o " PRIMARY KEY ("
             \o Join(change.details.constraint.columns, ", ") \o ")"
             \o (IF change.details.constraint.rely THEN " RELY" ELSE " NORELY")
             \o ";")

\* MigrationGenerator._gen_drop_pk
gen_drop_pk(change) ==
    Returned("ALTER TABLE " \o fqn(change.table_name)
             \o " DROP PRIMARY KEY IF EXISTS;")

\* MigrationGenerator._gen_alter_clustering
gen_alter_clustering(change) ==
    Returned("ALTER TABLE " \o fqn(change.table_name)
             \o (IF change.details.to_columns = <<>>
                 THEN " CLUSTER BY NONE;"
                 ELSE " CLUSTER BY (" \o Join(change.details.to_columns, ", ")
                      \o ");")
             \o "\n-- Note: Run OPTIMIZE to apply clustering changes")

\* MigrationGenerator._gen_alter_properties
gen_alter_properties(change, ord) ==
    Returned("ALTER TABLE " \o fqn(change.table_name) \o " SET TBLPROPERTIES ("
             \o PropertiesSql(change.details.properties,
                              Iterate(DOMAIN change.details.properties,
                                      ord.properties))
             \o ");")

\* MigrationGenerator._gen_drop_table
gen_drop_table(change) ==
    Returned("-- DROP TABLE IF EXISTS " \o fqn(change.table_name) \o ";")

\* MigrationGenerator._generate_sql
generate_sql(change, ord) ==
    CASE change.change_type = "CREATE_TABLE" -> gen_create_table(change, ord)
      [] change.change_type = "DROP_TABLE" -> gen_drop_table(change)
      [] change.change_type = "ADD_COLUMN" -> gen_add_column(change)
      [] change.change_type = "DROP_COLUMN" -> gen_drop_column(change)
      [] change.change_type = "ALTER_COLUMN_TYPE" -> gen_alter_column_type(change)
      [] change.change_type = "ALTER_COLUMN_NULLABILITY" ->
             gen_alter_nullability(change)
      [] change.change_type = "ALTER_COLUMN_DEFAULT" -> gen_alter_default(change)
      [] change.change_type = "ADD_CHECK_CONSTRAINT" -> gen_add_check(change)
      [] change.change_type = "DROP_CHECK_CONSTRAINT" -> gen_drop_check(change)
      [] change.change_type = "SET_PRIMARY_KEY" -> gen_set_pk(change)
      [] change.change_type = "DROP_PRIMARY_KEY" -> gen_drop_pk(change)
      [] change.change_type = "ALTER_CLUSTERING" -> gen_alter_clustering(change)
      [] change.change_type = "ALTER_TABLE_PROPERTIES" ->
             gen_alter_properties(change, ord)
      [] OTHER -> Raised("CodegenError",
                         "No generator for ChangeType." \o change.change_type)

\* MigrationGenerator.generate: the lines of the changes, lines 48-54
ChangeLines(change, ord) ==
    <<"-- " \o value(change.change_type) \o ": " \o change.table_name>>
    \o (IF change.requires_column_mapping
        THEN <<"-- Requires: delta.columnMapping.mode = 'name'">> ELSE <<>>)
    \o <<generate_sql(change, ord).text, "">>

\* the changes whose SQL cannot be generated
Failing(cs, ord) ==
    SelectSeq(cs, LAMBDA c : generate_sql(c, ord).raised # NoException)

\* an error that enumerates the messages of the unsupported changes
unsupported_error(errors) ==
    Exception("CodegenError",
              "Cannot generate migration - unsupported changes:\n"
              \o Join([i \in DOMAIN errors |->
                          "-- ERROR: " \o errors[i].error_message], "\n"))

\* a generate that reports the first unsupported change only
generate_first_error(cs, description, clock, ord) ==
    LET errors == SelectSeq(cs, LAMBDA c : c.is_unsupported)
    IN  IF errors # <<>>
        THEN [raised |-> unsupported_error(<<errors[1]>>), text |-> None]
        ELSE Returned("")

\* MigrationGenerator.generate; clock is datetime.now().isoformat() and ord the
\* order of the property dictionaries
generate(cs, description, clock, ord) ==
    LET errors == SelectSeq(cs, LAMBDA c : c.is_unsupported)
        destructive == SelectSeq(cs, LAMBDA c : c.is_destructive)
        header ==
            <<"-- Migration: Auto-generated",
              "-- Description: " \o description,
              "-- Generated: " \o clock,
              "",
              "-- Variable substitution: ${catalog}, ${schema}",
              "">>
        warning ==
            IF destructive # <<>>
            THEN <<"-- WARNING: This migration contains destructive changes:">>
                 \o [i \in DOMAIN destructive |->
                        "--   - " \o value(destructive[i].change_type) \o ": "
                        \o destructive[i].table_name]
                 \o <<"">>
            ELSE <<>>
        LinesOf == [i \in DOMAIN cs |-> ChangeLines(cs[i], ord)]
    IN  IF errors # <<>>
        THEN [raised |-> unsupported_error(errors), text |-> None]
        ELSE IF Failing(cs, ord) # <<>>
        THEN [raised |-> generate_sql(Failing(cs, ord)[1], ord).raised,
              text |-> None]
        ELSE Returned(Join(header \o warning
                           \o FlatMap(LinesOf, [i \in DOMAIN cs |-> i]), "\n"))

(***************************************************************************)
(* Actions of the runner                                                   *)
(***************************************************************************)
\* no apply call has been made
RunnerIdle ==
    /\ revision = [v \in Versions |-> 0]
    /\ pc = "idle"
    /\ pending = <<>>
    /\ dry_run = FALSE
    /\ migrations = <<>>
    /\ appliedAtStart = <<>>
    /\ executed = <<>>
    /\ recorded = <<>>
    /\ outcome = Outcome("none")
    /\ execCount = [v \in Versions |-> 0]

\* no direct call has been made on the store
NoCall == [op |-> "none"]

\* InMemoryMigrationStateStore.__init__ / a fresh state table
StoreEmpty ==
    /\ applied = <<>>
    /\ table = <<>>
    /\ now = 1
    /\ call = NoCall

(***************************************************************************)
(* migrations/parser.py: parse_migration_file and parse_migrations_dir     *)
(***************************************************************************)
\* a file name is the sequence of its characters
DecimalDigits == {"0", "1", "2", "3", "4", "5", "6", "7", "8", "9"}
SqlSuffix == <<".", "s", "q", "l">>

EndsWith(chars, suffix) ==
    /\ Len(chars) >= Len(suffix)
    /\ SubSeq(chars, Len(chars) - Len(suffix) + 1, Len(chars)) = suffix

\* the number of digits of chars from position `from` on
RECURSIVE DigitRun(_, _)
DigitRun(chars, from) ==
    IF from <= Len(chars) /\ chars[from] \in DecimalDigits
    THEN 1 + DigitRun(chars, from + 1)
    ELSE 0

\* MIGRATION_FILENAME_PATTERN.match(name) for ^V(\d+)__(.+)\.sql$: Nothing, or
\* the two groups; $ matches at the end and before a newline that ends the
\* name, and . matches no newline
filename_match(chars) ==
    LET d == DigitRun(chars, 2)
        end == IF chars # <<>> /\ chars[Len(chars)] = "\n"
               THEN Len(chars) - 1 ELSE Len(chars)
    IN  IF /\ chars # <<>>
           /\ chars[1] = "V"
           /\ d >= 1
           /\ d + 3 <= Len(chars)
           /\ chars[d + 2] = "_"
           /\ chars[d + 3] = "_"
           /\ end - 4 >= d + 4
           /\ SubSeq(chars, end - 3, end) = SqlSuffix
           /\ \A i \in (d + 4)..(end - 4) : chars[i] # "\n"
        THEN Some([version_str |-> SubSeq(chars, 2, d + 1),
                   name |-> SubSeq(chars, d + 4, end - 4)])
        ELSE Nothing

\* int(version_str)
DigitValue(c) == CHOOSE d \in 0..9 : ToString(d) = c
RECURSIVE int(_)
int(digits) ==
    IF digits = <<>> THEN 0
    ELSE 10 * int(SubSeq(digits, 1, Len(digits) - 1)) + DigitValue(digits[Len(digits)])

\* not content.strip(): the content, a sequence of tokens, is all white space
Whitespace == {" ", "\t", "\n", "\r", "\r\n"}
IsBlank(content) == \A i \in DOMAIN content : content[i] \in Whitespace

\* what is read from a path that is a directory
IsADirectory == <<"IsADirectoryError">>

\* path.read_text(encoding="utf-8"): the text of the file, its line endings
\* translated to "\n" as text mode does
read_text(bytes) == Replace(Replace(bytes, "\r\n", "\n"), "\r", "\n")

\* str(path) of a file of the migrations directory
PathText(name) == "migrations/" \o Text(name)

\* the result of a parse: the exception raised, or the value returned
Fails(msg) == [raised |-> Exception("MigrationParseError", msg), value |-> <<>>]
Gives(returned) == [raised |-> NoException, value |-> returned]

\* parser.py: MigrationFile(version, name, path, checksum, sql)
ParsedMigrationFile(version, name, path, checksum, sql) ==
    [version |-> version, name |-> name, path |-> path,
     checksum |-> checksum, sql |-> sql]

\* parser.py parse_migration_file, for the file `path` that holds `content`
parse_migration_file(path, content) ==
    LET match == filename_match(path)
        text == read_text(content)
    IN  IF match = Nothing
        THEN Fails("Invalid filename '" \o Text(path)
                   \o "'. Expected format: V<version>__name.sql")
        ELSE IF match[1].name = <<>>
        THEN Fails("Invalid filename '" \o Text(path)
                   \o "'. Migration name cannot be empty.")
        ELSE IF content = IsADirectory
        THEN Fails("Failed to read migration file '" \o PathText(path)
                   \o "': [Errno 21] Is a directory: '" \o PathText(path) \o "'")
        ELSE IF IsBlank(text)
        THEN Fails("Migration file '" \o Text(path) \o "' is empty.")
        ELSE Gives(ParsedMigrationFile(int(match[1].version_str), Text(match[1].name),
                                       path, compute_checksum(text), text))

\* directory.glob("*.sql"): the names of the directory that end in .sql
glob(dir) == {name \in DOMAIN dir : dir[name] # Nothing /\ EndsWith(name, SqlSuffix)}

\* the loop of parse_migrations_dir over the files in the order glob yields
\* them; versions_seen holds [version, path] pairs
RECURSIVE parse_loop(_, _, _, _)
parse_loop(dir, order, collected, versions_seen) ==
    IF order = <<>> THEN Gives(collected)
    ELSE LET sql_file == Head(order)
             result == parse_migration_file(sql_file, dir[sql_file][1])
             seen == {e \in versions_seen : e.version = result.value.version}
         IN  IF filename_match(sql_file) = Nothing
             THEN parse_loop(dir, Tail(order), collected, versions_seen)
             ELSE IF result.raised # NoException THEN result
             ELSE IF seen # {}
             THEN Fails("Duplicate version " \o ToString(result.value.version)
                        \o ": '" \o Text((CHOOSE e \in seen : TRUE).path)
                        \o "' and '" \o Text(sql_file) \o "'")
             ELSE parse_loop(dir, Tail(order), Append(collected, result.value),
                             versions_seen \cup {[version |-> result.value.version,
                                                  path |-> sql_file]})

\* parse_migrations_dir without its final sort
parse_migrations_dir_unsorted(dir, order) ==
    parse_loop(dir, order, <<>>, {})

\* parser.py parse_migrations_dir
parse_migrations_dir(dir, order) ==
    LET result == parse_loop(dir, order, <<>>, {})
    IN  IF result.raised # NoException THEN result
        ELSE Gives(SortedByVersion(result.value))

\* the names files of the migrations directory are given
FilenamePool ==
    { <<"V", "2", "_", "_", "a", ".", "s", "q", "l">>,
      <<"V", "1", "0", "_", "_", "b", ".", "s", "q", "l">>,
      <<"V", "1", "_", "_", "a", ".", "s", "q", "l">>,
      <<"V", "0", "1", "_", "_", "c", ".", "s", "q", "l">>,
      <<"n", "o", "t", "e", "s", ".", "s", "q", "l">>,
      <<"V", "3", "_", "x", ".", "s", "q", "l">>,
      <<"V", "5", "_", "_", ".", "s", "q", "l">>,
      <<"V", "4", "_", "_", "a", ".", "t", "x", "t">> }

\* what the files hold
ContentPool ==
    { <<"SELECT 1;", "\n">>, <<"SELECT 1;", "\r\n">>, <<" ", "\n">>, IsADirectory }

\* an empty migrations directory; parse_migrations_dir has not been called
ParserIdle ==
    /\ directory = [name \in FilenamePool |-> Nothing]
    /\ fileEdits = 0
    /\ parsePc = "editing"
    /\ parsed = Gives(<<>>)

\* an empty migration file; the run command has not been called
RunIdle ==
    /\ script = <<>>
    /\ runPc = "editing"
    /\ statements = <<>>
    /\ runRecord = "none"

\* DatabricksClient._session is None
NoSession == 0

\* DatabricksClient.__init__; no store has been constructed
ClientIdle ==
    /\ session = NoSession
    /\ inBlock = FALSE
    /\ storePc = "absent"
    /\ created = 0
    /\ stops = [id \in 1..MaxSessions |-> 0]
    /\ sqlLog = <<>>
    /\ config = [catalog |-> <<>>, schema |-> <<>>, state_table |-> <<>>]
    /\ clientCall = [op |-> "none", raised |-> NoException,
                     before |-> NoSession]

\* SchemaDiffer.diff has not been called
DifferIdle ==
    /\ source = <<>>
    /\ target = <<>>
    /\ changes = <<>>
    /\ diffPc = "editing"
    /\ generated = Returned(None)
    /\ schemaEdits = 0

Init ==
    /\ RunnerIdle
    /\ StoreEmpty
    /\ backend = "memory"
    /\ DifferIdle
    /\ ClientIdle
    /\ ParserIdle
    /\ RunIdle

RECURSIVE SumOver(_, _)
SumOver(f, S) ==
    IF S = {} THEN 0
    ELSE LET x == CHOOSE y \in S : TRUE IN f[x] + SumOver(f, S \ {x})

\* the migration directory as parse_migrations_dir reads it
files == [v \in Versions |-> MigrationFile(v, revision[v])]

\* somebody edits a migration file: its content, hence its checksum, changes
EditFile(v) ==
    /\ pc = "idle"
    /\ SumOver(revision, Versions) < MaxEdits
    /\ revision' = [revision EXCEPT ![v] = @ + 1]
    /\ UNCHANGED <<applied, now, pc, pending, dry_run, migrations,
                   appliedAtStart, executed, recorded, outcome, execCount>>
    /\ UNCHANGED storeVars
    /\ UNCHANGED <<diffVars, clientVars, parseVars, runVars>>

\* Runner.apply up to the loop: _check_checksums, plan, the early return
ApplyBegin(order, dry) ==
    LET migs == [i \in DOMAIN order |-> files[order[i]]]
    IN  /\ pc = "idle"
        /\ migrations' = migs
        /\ dry_run' = dry
        /\ appliedAtStart' = applied
        /\ executed' = <<>>
        /\ recorded' = <<>>
        /\ IF check_checksums_raises(migs, applied)
           THEN /\ outcome' = check_checksums_error(migs, applied)
                /\ pending' = <<>>
                /\ pc' = "done"
           ELSE /\ pending' = plan(migs, applied)
                /\ IF pending' = <<>>
                   THEN outcome' = Outcome("returned") /\ pc' = "done"
                   ELSE outcome' = Outcome("running") /\ pc' = "loop"
        /\ UNCHANGED <<revision, applied, now, execCount>>
        /\ UNCHANGED storeVars
        /\ UNCHANGED <<diffVars, clientVars, parseVars, runVars>>

\* one iteration of the loop past the dry_run test; exc is what the executor
\* does
IterationStep(exc) ==
    /\ pc = "loop"
    /\ LET pm  == Head(pending)
           res == apply_iteration(applied, pm, exc, now)
       IN  /\ executed' = Append(executed,
                                 [sql |-> substitute_variables(pm.sql),
                                  version |-> pm.version, raised |-> exc])
           /\ execCount' = [execCount EXCEPT ![pm.version] = Bump(@)]
           /\ applied' = res.store
           /\ recorded' = recorded \o res.calls
           /\ IF res.raised # NoException
              THEN /\ outcome' = res.raised
                   /\ pending' = Tail(pending)
                   /\ pc' = "done"
              ELSE /\ pending' = Tail(pending)
                   /\ IF pending' = <<>>
                      THEN outcome' = Outcome("returned") /\ pc' = "done"
                      ELSE UNCHANGED <<outcome, pc>>
    /\ UNCHANGED <<revision, now, dry_run, migrations, appliedAtStart>>
    /\ UNCHANGED storeVars
    /\ UNCHANGED <<diffVars, clientVars, parseVars, runVars>>

\* ApplyDryRunStep as it would be if the dry_run test were missing
ApplyDryRunStepExecuting ==
    /\ dry_run
    /\ IterationStep(NoException)

\* one iteration with dry_run: log and continue
ApplyDryRunStep ==
    /\ pc = "loop"
    /\ dry_run
    /\ pending' = Tail(pending)
    /\ IF pending' = <<>>
       THEN outcome' = Outcome("returned") /\ pc' = "done"
       ELSE UNCHANGED <<outcome, pc>>
    /\ UNCHANGED <<revision, applied, now, dry_run, migrations, appliedAtStart,
                   executed, recorded, execCount>>
    /\ UNCHANGED storeVars
    /\ UNCHANGED <<diffVars, clientVars, parseVars, runVars>>

\* one iteration without dry_run; exc is what the executor does
ApplyStep(exc) ==
    /\ ~dry_run
    /\ IterationStep(exc)

\* the caller takes apply's return or exception (cli.py cmd_run) and goes on
ApplyFinished ==
    /\ pc = "done"
    /\ pc' = "idle"
    /\ pending' = <<>>
    /\ dry_run' = FALSE
    /\ migrations' = <<>>
    /\ appliedAtStart' = <<>>
    /\ executed' = <<>>
    /\ recorded' = <<>>
    /\ outcome' = Outcome("none")
    /\ UNCHANGED <<revision, applied, now, execCount>>
    /\ UNCHANGED storeVars
    /\ UNCHANGED <<diffVars, clientVars, parseVars, runVars>>

ApplyExecutorReturns == ApplyStep(NoException)

ApplyExecutorRaises == \E exc \in ExecutorErrors : ApplyStep(exc)

Next ==
    \/ \E v \in Versions : EditFile(v)
    \/ \E order \in Orders, dry \in BOOLEAN : ApplyBegin(order, dry)
    \/ ApplyDryRunStep
    \/ ApplyExecutorReturns
    \/ ApplyExecutorRaises
    \/ ApplyFinished

(***************************************************************************)
(* Runner.apply: what a caller observes of the current or last call        *)
(***************************************************************************)
\* the versions the executor was invoked with, in invocation order
ExecutedVersions == [i \in DOMAIN executed |-> executed[i].version]

\* the versions of the supplied files, in the order supplied
SuppliedVersions == [i \in DOMAIN migrations |-> migrations[i].version]

\* the supplied versions that had no record when apply was called
PendingAtStart == {v \in Range(SuppliedVersions) : v \notin DOMAIN appliedAtStart}

\* some supplied file's version was recorded with another checksum when
\* apply was called
DriftAtStart ==
    \E i \in DOMAIN migrations :
        /\ migrations[i].version \in DOMAIN appliedAtStart
        /\ appliedAtStart[migrations[i].version].checksum # migrations[i].checksum

InApply == pc \in {"loop", "done"}

\* C1: when a supplied file's version is recorded with a checksum other than
\* the file's, apply raises MigrationChecksumMismatchError, the executor is
\* not invoked for any migration of the run, and the store is unchanged.
ChecksumMismatchAbortsBeforeExecution ==
    (InApply /\ DriftAtStart) =>
        /\ pc = "done"
        /\ outcome.type = "MigrationChecksumMismatchError"
        /\ executed = <<>>
        /\ recorded = <<>>
        /\ applied = appliedAtStart

\* a run that hit a drifted file while a lower version was still pending
ChecksumMismatchWitness ==
    /\ pc = "done"
    /\ outcome.type = "MigrationChecksumMismatchError"
    /\ \E i, j \in DOMAIN migrations :
          /\ migrations[i].version \in DOMAIN appliedAtStart
          /\ appliedAtStart[migrations[i].version].checksum # migrations[i].checksum
          /\ migrations[j].version < migrations[i].version
          /\ migrations[j].version \in PendingAtStart

\* C2: when the executor raises for pending version v of a non-dry-run
\* apply, every pending version below v is recorded with success=true, v is
\* recorded with success=false and the stringified exception, no pending
\* version above v is executed or recorded, and the exception is re-raised.
FailFastRecordsAndReraises ==
    \A i \in DOMAIN executed :
        executed[i].raised # NoException =>
            LET v == executed[i].version
            IN  /\ ~dry_run
                /\ i = Len(executed)
                /\ pc = "done"
                /\ outcome = executed[i].raised
                /\ \A u \in PendingAtStart :
                      u < v => /\ u \in DOMAIN applied
                               /\ applied[u].success = TRUE
                               /\ applied[u].error = None
                               /\ u \in Range(ExecutedVersions)
                /\ v \in DOMAIN applied
                /\ applied[v].success = FALSE
                /\ applied[v].error = executed[i].raised.msg
                /\ \A u \in PendingAtStart :
                      u > v => /\ u \notin Range(ExecutedVersions)
                               /\ u \notin DOMAIN applied
                               /\ \A k \in DOMAIN recorded : recorded[k].version # u

\* the executor raised on the second of three pending migrations
FailFastWitness ==
    /\ pc = "done"
    /\ Len(executed) = 2
    /\ executed[1].raised = NoException
    /\ executed[2].raised # NoException
    /\ \E u \in PendingAtStart : u > executed[2].version
    /\ DOMAIN applied = {executed[1].version, executed[2].version}

\* C3: whatever the order of the supplied files, the executor is invoked on
\* the pending versions in strictly ascending version order.
ExecutesInAscendingVersionOrder ==
    /\ \A i, j \in DOMAIN executed :
          i < j => executed[i].version < executed[j].version
    /\ (pc = "done" /\ ~dry_run /\ outcome = Outcome("returned"))
          => Range(ExecutedVersions) = PendingAtStart

\* files supplied as 3, 1, 2 were executed as 1, 2, 3
AscendingOrderWitness ==
    /\ pc = "done"
    /\ Len(migrations) >= 3
    /\ \E i \in DOMAIN migrations :
          i < Len(migrations) /\ migrations[i].version > migrations[i + 1].version
    /\ Len(executed) = Len(migrations)

\* C4: over any sequence of applies against the same in-memory store the
\* executor is invoked at most once per version, and never for a version
\* that was recorded when the apply was called.
ExecutedAtMostOnce ==
    /\ \A v \in Versions : execCount[v] <= 1
    /\ \A i \in DOMAIN executed : executed[i].version \notin DOMAIN appliedAtStart
    /\ \A v \in Versions : execCount[v] = 1 => v \in DOMAIN applied

\* a later apply was given an already recorded file again and executed only
\* the others
ExecutedOnceWitness ==
    /\ pc = "done"
    /\ ~dry_run
    /\ executed # <<>>
    /\ \E i \in DOMAIN migrations :
          /\ migrations[i].version \in DOMAIN appliedAtStart
          /\ appliedAtStart[migrations[i].version].success
    /\ outcome = Outcome("returned")

\* the migration directory in file-name order
Directory == [v \in Versions |-> files[v]]

\* C7: a version recorded with success=false counts as applied: has_applied
\* is true for it, plan() leaves it out, and a later apply does not invoke
\* the executor for it.
FailedCountsAsApplied ==
    /\ LET failed  == {v \in DOMAIN applied : ~applied[v].success}
           planned == plan(Directory, applied)
       IN  failed # {} =>
               /\ \A v \in failed : has_applied(applied, v)
               /\ \A k \in DOMAIN planned : planned[k].version \notin failed
    /\ \A v \in DOMAIN appliedAtStart :
          ~appliedAtStart[v].success => v \notin Range(ExecutedVersions)

\* a later apply over files that include a failed version executed the rest
FailedCountsAsAppliedWitness ==
    /\ pc = "done"
    /\ ~dry_run
    /\ executed # <<>>
    /\ outcome = Outcome("returned")
    /\ \E i \in DOMAIN migrations :
          /\ migrations[i].version \in DOMAIN appliedAtStart
          /\ ~appliedAtStart[migrations[i].version].success
          /\ appliedAtStart[migrations[i].version].checksum = migrations[i].checksum

\* C8: with dry_run the executor is never invoked, record_applied is never
\* called and list_applied() is the same after the call as before.
DryRunExecutesAndRecordsNothing ==
    (InApply /\ dry_run) =>
        /\ executed = <<>>
        /\ recorded = <<>>
        /\ list_applied(applied) = list_applied(appliedAtStart)
        /\ applied = appliedAtStart

\* a dry run over two or more pending migrations has returned
DryRunWitness ==
    /\ pc = "done"
    /\ dry_run
    /\ outcome = Outcome("returned")
    /\ Cardinality(PendingAtStart) >= 2

\* C9: for every pending migration the executor was invoked on,
\* record_applied was called exactly once for its version in that run,
\* whether the executor returned or raised, and whatever the store did with
\* the call.
RecordedExactlyOncePerExecution ==
    /\ \A i \in DOMAIN executed :
          Cardinality({k \in DOMAIN recorded :
                          recorded[k].version = executed[i].version}) = 1
    /\ Len(recorded) = Len(executed)
    /\ \A k \in DOMAIN recorded :
          /\ recorded[k].version = executed[k].version
          /\ recorded[k].success = (executed[k].raised = NoException)

(***************************************************************************)
(* Direct calls on a state store                                           *)
(***************************************************************************)
\* the arguments callers pass to record_applied
StoreNames == {"create_users"}

StoreChecksums == {"abc", "different"}

\* success flag and error text
StoreResults == {<<TRUE, None>>, <<FALSE, "boom">>, <<FALSE, "still boom">>}

\* list_applied() of the store in use
ListApplied ==
    IF backend = "memory" THEN list_applied(applied) ELSE db_list_applied(table)

\* the record of a record_applied call
RecordAppliedCall(version, name, checksum, success, error, raised) ==
    [op |-> "record_applied", version |-> version, name |-> name,
     checksum |-> checksum, success |-> success, error |-> error,
     raised |-> raised, before |-> ListApplied]

InitStore ==
    /\ RunnerIdle
    /\ StoreEmpty
    /\ backend \in {"memory", "databricks"}
    /\ DifferIdle
    /\ ClientIdle
    /\ ParserIdle
    /\ RunIdle

\* InMemoryMigrationStateStore.record_applied
RecordApplied(version, name, checksum, success, error) ==
    /\ backend = "memory"
    /\ now <= MaxCalls
    /\ LET res == record_applied(applied, version, name, checksum, success,
                                 error, now)
       IN  /\ applied' = res.store
           /\ call' = RecordAppliedCall(version, name, checksum, success, error,
                                        res.raised)
    /\ now' = now + 1
    /\ UNCHANGED <<backend, table>>
    /\ UNCHANGED <<revision, pc, pending, dry_run, migrations, appliedAtStart,
                   executed, recorded, outcome, execCount>>
    /\ UNCHANGED <<diffVars, clientVars, parseVars, runVars>>

\* DatabricksMigrationStateStore.record_applied
DbRecordApplied(version, name, checksum, success, error) ==
    /\ backend = "databricks"
    /\ now <= MaxCalls
    /\ LET res == db_record_applied(table, version, name, checksum, success,
                                    error, now)
       IN  /\ table' = res.store
           /\ call' = RecordAppliedCall(version, name, checksum, success, error,
                                        res.raised)
    /\ now' = now + 1
    /\ UNCHANGED <<backend, applied>>
    /\ UNCHANGED <<revision, pc, pending, dry_run, migrations, appliedAtStart,
                   executed, recorded, outcome, execCount>>
    /\ UNCHANGED <<diffVars, clientVars, parseVars, runVars>>

NextStore ==
    \/ \E v \in Versions, n \in StoreNames, c \in StoreChecksums,
          r \in StoreResults : RecordApplied(v, n, c, r[1], r[2])
    \/ \E v \in Versions, n \in StoreNames, c \in StoreChecksums,
          r \in StoreResults : DbRecordApplied(v, n, c, r[1], r[2])

\* the records of call.version that list_applied() held before the call
RecordedBefore ==
    SelectSeq(call.before, LAMBDA m : m.version = call.version)

\* C5: record_applied for a version already recorded with the same checksum
\* returns and leaves list_applied() unchanged in length and content; the
\* first success flag and error text stay, whatever the second call passes.
RecordAppliedIsIdempotent ==
    (/\ call.op = "record_applied"
     /\ RecordedBefore # <<>>
     /\ RecordedBefore[1].checksum = call.checksum) =>
        /\ call.raised = NoException
        /\ Len(ListApplied) = Len(call.before)
        /\ ListApplied = call.before
        /\ \E i \in DOMAIN ListApplied :
              /\ ListApplied[i].version = call.version
              /\ ListApplied[i].success = RecordedBefore[1].success
              /\ ListApplied[i].error = RecordedBefore[1].error

\* a failed record was recorded again, same checksum, as a success
IdempotentWitness ==
    /\ call.op = "record_applied"
    /\ backend = "memory"
    /\ RecordedBefore # <<>>
    /\ RecordedBefore[1].checksum = call.checksum
    /\ RecordedBefore[1].success = FALSE
    /\ RecordedBefore[1].error = "boom"
    /\ call.success = TRUE
    /\ call.error = None

\* C6: record_applied for a version already recorded with a different
\* checksum raises MigrationStateConflictError and leaves the stored state
\* as it was, in the in-memory and in the table-backed store.
ConflictingRecordRaisesAndKeepsState ==
    (/\ call.op = "record_applied"
     /\ RecordedBefore # <<>>
     /\ RecordedBefore[1].checksum # call.checksum) =>
        /\ call.raised.type = "MigrationStateConflictError"
        /\ ListApplied = call.before
        /\ backend = "memory" => Cardinality(DOMAIN applied) = Len(call.before)
        /\ backend = "databricks" => Len(table) = Len(call.before)

\* the table-backed store rejected a record with another checksum while it
\* held two records
ConflictWitness ==
    /\ call.op = "record_applied"
    /\ backend = "databricks"
    /\ RecordedBefore # <<>>
    /\ RecordedBefore[1].checksum # call.checksum
    /\ call.raised.type = "MigrationStateConflictError"
    /\ Len(table) = 2

(***************************************************************************)
(* SchemaDiffer.diff on schemas that a few edits separate                  *)
(***************************************************************************)
TableNames == {"users", "orders", "_temp_staging"}

\* the table whose definition the edits change
Edited == "users"

Sides == {"source", "target"}

BIGINT == <<"BIGINT">>
DECIMAL(params) == <<"DECIMAL", "(", params, ")">>

TypePool == {<<"INT">>, BIGINT, <<"bigint">>, <<" ", "bigint">>, <<"STRING">>,
             DECIMAL("10,2"), DECIMAL("12,2")}

\* the table the tests build: one column id BIGINT NOT NULL
BaseTable(name) == Table(name, <<Column("id", BIGINT, FALSE, None)>>)

ColumnPool == {Column("email", <<"STRING">>, TRUE, None),
               Column("amount", DECIMAL("10,2"), TRUE, None)}

PrimaryKeyPool == {Nothing, Some(PrimaryKey(<<"id">>, FALSE)),
                   Some(PrimaryKey(<<"id">>, TRUE)),
                   Some(PrimaryKey(<<"id", "email">>, FALSE)),
                   Some(PrimaryKey(<<"email", "id">>, FALSE))}

CheckPool == {CheckConstraint("positive", "id > 0"),
              CheckConstraint("positive", "id >= 0"),
              CheckConstraint("small", "id < 100")}

ColumnLists == {<<>>, <<"id">>, <<"id", "email">>, <<"email", "id">>}

PropertyPool == {<<"delta.enableChangeDataFeed", "true">>,
                 <<"delta.enableChangeDataFeed", "false">>,
                 <<"custom.prop", "it's">>}

DefaultPool == {None, "0"}

\* a dictionary with key k set to v
With(f, k, v) == [x \in DOMAIN f \cup {k} |-> IF x = k THEN v ELSE f[x]]

\* a dictionary without key k
Without(f, k) ==
    IF DOMAIN f \ {k} = {} THEN <<>> ELSE [x \in DOMAIN f \ {k} |-> f[x]]

\* a list without its elements named n
WithoutName(xs, n) == SelectSeq(xs, LAMBDA x : x.name # n)

\* the orders in which a set can be iterated
IterationOrders(S) ==
    {p \in [1..Cardinality(S) -> S] : \A i, j \in DOMAIN p : p[i] = p[j] => i = j}

SchemaOf(side) == IF side = "source" THEN source ELSE target

\* one of the two schemas is written; nothing else moves
WriteSchema(side, schema) ==
    /\ diffPc = "editing"
    /\ schemaEdits < MaxSchemaEdits
    /\ schema # SchemaOf(side)
    /\ schemaEdits' = schemaEdits + 1
    /\ IF side = "source"
       THEN source' = schema /\ UNCHANGED target
       ELSE target' = schema /\ UNCHANGED source
    /\ UNCHANGED <<changes, diffPc, generated>>
    /\ UNCHANGED <<runnerVars, storeVars, clientVars, parseVars, runVars>>

\* the edited table of one of the schemas is rewritten
WriteTable(side, tbl) ==
    /\ Edited \in DOMAIN SchemaOf(side)
    /\ WriteSchema(side, With(SchemaOf(side), Edited, tbl))

EditedTable(side) == SchemaOf(side)[Edited]

AddTable(side, name) ==
    /\ name \notin DOMAIN SchemaOf(side)
    /\ WriteSchema(side, With(SchemaOf(side), name, BaseTable(name)))

RemoveTable(side, name) ==
    /\ name \in DOMAIN SchemaOf(side)
    /\ WriteSchema(side, Without(SchemaOf(side), name))

AddColumn(side, col) ==
    /\ Edited \in DOMAIN SchemaOf(side)
    /\ \A i \in DOMAIN EditedTable(side).columns :
          EditedTable(side).columns[i].name # col.name
    /\ WriteTable(side, [EditedTable(side) EXCEPT !.columns = Append(@, col)])

RemoveColumn(side, name) ==
    /\ Edited \in DOMAIN SchemaOf(side)
    /\ WriteTable(side, [EditedTable(side) EXCEPT !.columns = WithoutName(@, name)])

\* the same columns listed in the opposite order
RECURSIVE Reverse(_)
Reverse(xs) == IF xs = <<>> THEN <<>> ELSE Append(Reverse(Tail(xs)), Head(xs))

ReverseColumns(side) ==
    /\ Edited \in DOMAIN SchemaOf(side)
    /\ WriteTable(side, [EditedTable(side) EXCEPT !.columns = Reverse(@)])

HasColumn(side, i) ==
    /\ Edited \in DOMAIN SchemaOf(side)
    /\ i \in DOMAIN EditedTable(side).columns

SetColumnType(side, i, type) ==
    /\ HasColumn(side, i)
    /\ LET c == EditedTable(side).columns[i]
       IN  WriteTable(side, [EditedTable(side) EXCEPT
                                !.columns[i] =
                                    Column(c.name, type, c.nullable, c.default)])

SetColumnNullable(side, i, nullable) ==
    /\ HasColumn(side, i)
    /\ WriteTable(side, [EditedTable(side) EXCEPT !.columns[i].nullable = nullable])

SetColumnDefault(side, i, default) ==
    /\ HasColumn(side, i)
    /\ WriteTable(side, [EditedTable(side) EXCEPT !.columns[i].default = default])

SetPrimaryKey(side, pk) ==
    /\ Edited \in DOMAIN SchemaOf(side)
    /\ WriteTable(side, [EditedTable(side) EXCEPT !.primary_key = pk])

AddCheck(side, chk) ==
    /\ Edited \in DOMAIN SchemaOf(side)
    /\ WriteTable(side, [EditedTable(side) EXCEPT
                            !.check_constraints =
                                Append(WithoutName(@, chk.name), chk)])

RemoveCheck(side, name) ==
    /\ Edited \in DOMAIN SchemaOf(side)
    /\ WriteTable(side, [EditedTable(side) EXCEPT
                            !.check_constraints = WithoutName(@, name)])

SetClustering(side, cols) ==
    /\ Edited \in DOMAIN SchemaOf(side)
    /\ WriteTable(side, [EditedTable(side) EXCEPT !.liquid_clustering = cols])

SetPartitioning(side, cols) ==
    /\ Edited \in DOMAIN SchemaOf(side)
    /\ WriteTable(side, [EditedTable(side) EXCEPT !.partitioned_by = cols])

SetProperty(side, kv) ==
    /\ Edited \in DOMAIN SchemaOf(side)
    /\ WriteTable(side, [EditedTable(side) EXCEPT
                            !.table_properties = With(@, kv[1], kv[2])])

RemoveProperty(side, key) ==
    /\ Edited \in DOMAIN SchemaOf(side)
    /\ WriteTable(side, [EditedTable(side) EXCEPT
                            !.table_properties = Without(@, key)])

\* the names a call of diff iterates over
ColumnNamesOf(schema) ==
    IF Edited \in DOMAIN schema
    THEN {schema[Edited].columns[i].name : i \in DOMAIN schema[Edited].columns}
    ELSE {}

CheckNamesOf(schema) ==
    IF Edited \in DOMAIN schema
    THEN {schema[Edited].check_constraints[i].name :
             i \in DOMAIN schema[Edited].check_constraints}
    ELSE {}

\* SchemaDiffer().diff(source, target)
Diff ==
    /\ diffPc = "editing"
    /\ \E tables \in IterationOrders(DOMAIN source \cup DOMAIN target),
          columns \in IterationOrders(ColumnNamesOf(source) \cup ColumnNamesOf(target)),
          checks \in IterationOrders(CheckNamesOf(source) \cup CheckNamesOf(target)) :
          changes' = diff(source, target,
                          [tables |-> tables, columns |-> columns,
                           checks |-> checks])
    /\ diffPc' = "diffed"
    /\ UNCHANGED <<source, target, schemaEdits, generated>>
    /\ UNCHANGED <<runnerVars, storeVars, clientVars, parseVars, runVars>>

\* the keys of the property dictionaries
PropertyKeys == {kv[1] : kv \in PropertyPool}

\* generate's arguments and the time of the call
Description == "auto"
GeneratedAt == "2024-01-01T00:00:00"

\* MigrationGenerator(catalog, schema).generate(changes, description)
Generate ==
    /\ diffPc = "diffed"
    /\ \E keys \in IterationOrders(PropertyKeys) :
          generated' = generate(changes, Description, GeneratedAt,
                                [properties |-> keys])
    /\ diffPc' = "generated"
    /\ UNCHANGED <<source, target, changes, schemaEdits>>
    /\ UNCHANGED <<runnerVars, storeVars, clientVars, parseVars, runVars>>

\* a table that uses the optional parts of a definition
FullTable(name) ==
    [Table(name, <<Column("id", BIGINT, FALSE, None),
                   Column("email", <<"STRING">>, TRUE, None)>>)
     EXCEPT !.primary_key = Some(PrimaryKey(<<"id">>, FALSE)),
            !.check_constraints = <<CheckConstraint("positive", "id > 0")>>,
            !.table_properties = With(<<>>, "delta.enableChangeDataFeed", "true")]

\* the schemas the edits start from: no table, the one-column table of the
\* tests, a table with constraints and properties
BaseSchemas ==
    {<<>>, With(<<>>, Edited, BaseTable(Edited)),
     With(<<>>, Edited, FullTable(Edited))}

\* both schemas start as the same one
InitDiff ==
    /\ RunnerIdle
    /\ StoreEmpty
    /\ backend = "memory"
    /\ source \in BaseSchemas
    /\ target = source
    /\ changes = <<>>
    /\ diffPc = "editing"
    /\ generated = Returned(None)
    /\ schemaEdits = 0
    /\ ClientIdle
    /\ ParserIdle
    /\ RunIdle

NextDiff ==
    \/ \E side \in Sides, name \in TableNames : AddTable(side, name)
    \/ \E side \in Sides, name \in TableNames : RemoveTable(side, name)
    \/ \E side \in Sides, col \in ColumnPool : AddColumn(side, col)
    \/ \E side \in Sides, col \in ColumnPool : RemoveColumn(side, col.name)
    \/ \E side \in Sides : ReverseColumns(side)
    \/ \E side \in Sides, i \in 1..2, type \in TypePool :
          SetColumnType(side, i, type)
    \/ \E side \in Sides, i \in 1..2, nullable \in BOOLEAN :
          SetColumnNullable(side, i, nullable)
    \/ \E side \in Sides, i \in 1..2, default \in DefaultPool :
          SetColumnDefault(side, i, default)
    \/ \E side \in Sides, pk \in PrimaryKeyPool : SetPrimaryKey(side, pk)
    \/ \E side \in Sides, chk \in CheckPool : AddCheck(side, chk)
    \/ \E side \in Sides, chk \in CheckPool : RemoveCheck(side, chk.name)
    \/ \E side \in Sides, cols \in ColumnLists : SetClustering(side, cols)
    \/ \E side \in Sides, cols \in ColumnLists : SetPartitioning(side, cols)
    \/ \E side \in Sides, kv \in PropertyPool : SetProperty(side, kv)
    \/ \E side \in Sides, kv \in PropertyPool : RemoveProperty(side, kv[1])
    \/ Diff
    \/ Generate

\* the change kinds of the returned list
ChangeTypes == {changes[i].change_type : i \in DOMAIN changes}

\* source and target hold the same tables, source possibly some more
OnlyExtraSourceTables ==
    /\ DOMAIN target \subseteq DOMAIN source
    /\ \A name \in DOMAIN target : source[name] = target[name]

\* C10: diff ignores the tables present only in the source schema: the list
\* it returns holds no DROP_TABLE change, and when the source differs from
\* the target only by extra tables the list is empty
DiffIgnoresSourceOnlyTables ==
    diffPc = "diffed" =>
        /\ "DROP_TABLE" \notin ChangeTypes
        /\ OnlyExtraSourceTables => changes = <<>>


\* diff has returned and the edited table is in both schemas
DiffedBoth ==
    /\ diffPc = "diffed"
    /\ Edited \in DOMAIN source
    /\ Edited \in DOMAIN target

\* the columns of the edited table on each side, by name
SourceColumns == ByName(source[Edited].columns)
TargetColumns == ByName(target[Edited].columns)

\* the positions of the returned changes of one kind for the edited table
ChangesOfKind(kind) ==
    {i \in DOMAIN changes :
        changes[i].change_type = kind /\ changes[i].table_name = Edited}

\* the widening pairs the specification allows
WideningAllowList ==
    {<<"TINYINT", "SMALLINT">>, <<"TINYINT", "INT">>, <<"TINYINT", "BIGINT">>,
     <<"SMALLINT", "INT">>, <<"SMALLINT", "BIGINT">>, <<"INT", "BIGINT">>,
     <<"FLOAT", "DOUBLE">>}

\* C11: for a column of both schemas whose uppercased types differ, diff
\* emits exactly one ALTER_COLUMN_TYPE; it is supported only for the
\* allow-listed widening pairs, and any other change, narrowing or a change
\* of DECIMAL precision or scale included, is unsupported with a non-empty
\* error message
TypeChangeSupportedOnlyWhenWidening ==
    DiffedBoth =>
        \A name \in DOMAIN SourceColumns \cap DOMAIN TargetColumns :
            LET from == upper(SourceColumns[name].type)
                to   == upper(TargetColumns[name].type)
                alters == {i \in ChangesOfKind("ALTER_COLUMN_TYPE") :
                              changes[i].details.column_name = name}
            IN  from # to =>
                    /\ Cardinality(alters) = 1
                    /\ \A i \in alters :
                          IF <<Text(from), Text(to)>> \in WideningAllowList
                          THEN ~changes[i].is_unsupported
                          ELSE /\ changes[i].is_unsupported
                               /\ changes[i].error_message \notin {None, ""}


\* C12: when source equals target under the equality of Schema, Table and
\* PrimaryKey, which ignores the order of columns, clustering columns and
\* partition columns, diff returns an empty list
DiffOfEqualSchemasIsEmpty ==
    (diffPc = "diffed" /\ schema_eq(source, target)) => changes = <<>>

\* diff returned for two equal schemas whose edited tables list their
\* columns, clustering columns or partition columns in different orders
EqualSchemasWitness ==
    /\ DiffedBoth
    /\ schema_eq(source, target)
    /\ \/ source[Edited].columns # target[Edited].columns
       \/ source[Edited].liquid_clustering # target[Edited].liquid_clustering
       \/ source[Edited].partitioned_by # target[Edited].partitioned_by
    /\ changes = <<>>


\* the target keys of the edited table whose value differs from the source's,
\* a key the source lacks included
DifferingProperties ==
    {key \in DOMAIN target[Edited].table_properties :
        \/ key \notin DOMAIN source[Edited].table_properties
        \/ source[Edited].table_properties[key]
               # target[Edited].table_properties[key]}

\* the keys only the source has
SourceOnlyProperties ==
    DOMAIN source[Edited].table_properties \ DOMAIN target[Edited].table_properties

\* C13: for a table of both schemas diff emits at most one
\* ALTER_TABLE_PROPERTIES; its payload holds exactly the target keys whose
\* value differs from the source, with the target's values, and a key only
\* the source has appears in no change
PropertiesAreMergeOnly ==
    DiffedBoth =>
        LET props == ChangesOfKind("ALTER_TABLE_PROPERTIES")
        IN  /\ Cardinality(props) <= 1
            /\ (props # {}) <=> (DifferingProperties # {})
            /\ \A i \in props :
                  /\ DOMAIN changes[i].details.properties = DifferingProperties
                  /\ \A key \in DifferingProperties :
                        changes[i].details.properties[key]
                            = target[Edited].table_properties[key]
                  /\ DOMAIN changes[i].details.properties
                         \cap SourceOnlyProperties = {}

\* the source has a key the target dropped and another whose value the
\* target changed: one change, for the changed key only
MergeOnlyWitness ==
    /\ DiffedBoth
    /\ SourceOnlyProperties # {}
    /\ DifferingProperties # {}
    /\ DifferingProperties \cap DOMAIN source[Edited].table_properties # {}
    /\ Cardinality(ChangesOfKind("ALTER_TABLE_PROPERTIES")) = 1


\* the message names the old and the new partition columns
NamesPartitionColumns(msg, old, new) ==
    msg = "Cannot change partitioning for table '" \o Edited
          \o "'. Current: " \o Repr(old) \o ", Desired: " \o Repr(new) \o ". "
          \o "Delta Lake does not support changing partition columns. "
          \o "You must recreate the table."

\* C14: for a table of both schemas the partition columns are compared as
\* sets: equal sets, in whatever order, give no ALTER_PARTITIONING; different
\* sets give exactly one, always unsupported, with a non-empty error message
\* that names the old and the new columns
PartitioningComparedAsSets ==
    DiffedBoth =>
        LET old   == source[Edited].partitioned_by
            new   == target[Edited].partitioned_by
            parts == ChangesOfKind("ALTER_PARTITIONING")
        IN  IF Range(old) = Range(new)
            THEN parts = {}
            ELSE /\ Cardinality(parts) = 1
                 /\ \A i \in parts :
                       /\ changes[i].is_unsupported
                       /\ changes[i].error_message \notin {None, ""}
                       /\ NamesPartitionColumns(changes[i].error_message, old, new)

\* the partition columns changed from one non-empty set to another
PartitioningChangedWitness ==
    /\ DiffedBoth
    /\ source[Edited].partitioned_by # <<>>
    /\ target[Edited].partitioned_by # <<>>
    /\ Range(source[Edited].partitioned_by) # Range(target[Edited].partitioned_by)
    /\ Cardinality(ChangesOfKind("ALTER_PARTITIONING")) = 1


\* the unsupported changes of the batch handed to generate
Unsupported == SelectSeq(changes, LAMBDA c : c.is_unsupported)

\* the message lists the explanation of every unsupported change
EnumeratesExplanations(msg) ==
    msg = "Cannot generate migration - unsupported changes:\n"
          \o Join([i \in DOMAIN Unsupported |->
                      "-- ERROR: " \o Unsupported[i].error_message], "\n")

\* C15: when some change of the batch is unsupported, generate raises,
\* returns no SQL text for any change of the batch, and the error message
\* lists the explanation of every unsupported change
UnsupportedChangeRejectsBatch ==
    (diffPc = "generated" /\ Unsupported # <<>>) =>
        /\ generated.raised # NoException
        /\ generated.text = None
        /\ \A i \in DOMAIN Unsupported : Truthy(Unsupported[i].error_message)
        /\ EnumeratesExplanations(str(generated.raised))

\* generate was given a batch with a supported and an unsupported change
RejectedBatchWitness ==
    /\ diffPc = "generated"
    /\ Unsupported # <<>>
    /\ Len(Unsupported) < Len(changes)
    /\ generated.raised # NoException
    /\ generated.text = None

\* C16: the error generate raises for a batch with an unsupported change is
\* an UnsupportedChangeError that carries the kind of the offending change
UnsupportedChangeRaisesUnsupportedChangeError ==
    (diffPc = "generated" /\ Unsupported # <<>>) =>
        /\ generated.raised.type = "UnsupportedChangeError"
        /\ "change_type" \in DOMAIN generated.raised


(***************************************************************************)
(* databricks/client.py and the session of DatabricksMigrationStateStore   *)
(***************************************************************************)
\* the characters the names of the model are written with
Letters == {"a", "c", "h", "s", "t", "Z"}
Digits == {"0", "1"}

\* state.py _IDENTIFIER_RE.match(value): ^[A-Za-z_][A-Za-z0-9_]*$, where $
\* matches at the end and also before a newline that ends the text
identifier_match(chars) ==
    /\ chars # <<>>
    /\ chars[1] \in Letters \cup {"_"}
    /\ \E k \in 1..Len(chars) :
          /\ \A i \in 2..k : chars[i] \in Letters \cup Digits \cup {"_"}
          /\ \/ k = Len(chars)
             \/ k = Len(chars) - 1 /\ chars[Len(chars)] = "\n"

\* repr() of a text
ReprChar(c) == IF c = "\n" THEN "\\n" ELSE c
ReprText(chars) == "'" \o Text([i \in DOMAIN chars |-> ReprChar(chars[i])]) \o "'"

\* state.py _validate_identifier: the exception it raises, if any
validate_identifier(chars, kind) ==
    IF ~identifier_match(chars)
    THEN Exception("ConfigError",
                   "Invalid " \o kind \o " identifier: " \o ReprText(chars))
    ELSE NoException

\* DatabricksMigrationStateStore.state_table_fqn
state_table_fqn(cfg) ==
    Text(cfg.catalog) \o "." \o Text(cfg.schema) \o "." \o Text(cfg.state_table)

\* DatabricksMigrationStateStore._CREATE_TABLE_SQL.format(table=...)
create_table_sql(cfg) ==
    "\n        CREATE TABLE IF NOT EXISTS " \o state_table_fqn(cfg) \o " (\n"
    \o "            version INT,\n"
    \o "            name STRING,\n"
    \o "            checksum STRING,\n"
    \o "            applied_at TIMESTAMP,\n"
    \o "            success BOOLEAN,\n"
    \o "            error STRING\n"
    \o "        )\n    "

\* what the Databricks side can answer a call with: NoException when the call
\* goes through, an error otherwise
SessionErrors == {Exception("Exception", "session error")}
SessionAnswers == {NoException} \cup SessionErrors

\* the record of a call
ClientCall(op, raised) == [op |-> op, raised |-> raised, before |-> session]

\* DatabricksClient.connect; answer is what builder.getOrCreate() does
connect(op, answer) ==
    IF session # NoSession
    THEN /\ clientCall' = ClientCall(op, Exception("RuntimeError",
                              "Already connected. Call close() before reconnecting."))
         /\ UNCHANGED <<session, created>>
    ELSE IF answer # NoException
    THEN /\ clientCall' = ClientCall(op, answer)
         /\ UNCHANGED <<session, created>>
    ELSE /\ created < MaxSessions
         /\ created' = created + 1
         /\ session' = created + 1
         /\ clientCall' = ClientCall(op, NoException)

\* DatabricksClient.execute and fetchall; answer is what
\* session.sql(sql).collect() does
statement(op, sql, answer) ==
    IF session = NoSession
    THEN /\ clientCall' = ClientCall(op, Exception("RuntimeError",
                              "Not connected. Call connect() first."))
         /\ UNCHANGED sqlLog
    ELSE /\ Len(sqlLog) < MaxStatements
         /\ sqlLog' = Append(sqlLog, [session |-> session, sql |-> sql])
         /\ clientCall' = ClientCall(op, answer)

\* a close that stops the session and keeps the reference
close_keeps_session(op, answer) ==
    IF session # NoSession
    THEN /\ stops' = [stops EXCEPT ![session] = @ + 1]
         /\ UNCHANGED session
         /\ clientCall' = ClientCall(op, answer)
    ELSE /\ UNCHANGED <<session, stops>>
         /\ clientCall' = ClientCall(op, NoException)

\* DatabricksClient.close; answer is what session.stop() does
close(op, answer) ==
    IF session # NoSession
    THEN /\ stops' = [stops EXCEPT ![session] = @ + 1]
         /\ session' = NoSession
         /\ clientCall' = ClientCall(op, answer)
    ELSE /\ UNCHANGED <<session, stops>>
         /\ clientCall' = ClientCall(op, NoException)

\* the statements callers send
Statements == {"SELECT 1"}

\* client.connect()
Connect(answer) ==
    /\ storePc = "absent"
    /\ connect("connect", answer)
    /\ UNCHANGED <<inBlock, storePc, stops, sqlLog, config>>
    /\ UNCHANGED <<runnerVars, storeVars, diffVars, parseVars, runVars>>

\* client.execute(sql)
Execute(sql, answer) ==
    /\ storePc = "absent"
    /\ statement("execute", sql, answer)
    /\ UNCHANGED <<session, inBlock, storePc, created, stops, config>>
    /\ UNCHANGED <<runnerVars, storeVars, diffVars, parseVars, runVars>>

\* client.fetchall(sql)
Fetchall(sql, answer) ==
    /\ storePc = "absent"
    /\ statement("fetchall", sql, answer)
    /\ UNCHANGED <<session, inBlock, storePc, created, stops, config>>
    /\ UNCHANGED <<runnerVars, storeVars, diffVars, parseVars, runVars>>

\* client.close()
Close(answer) ==
    /\ storePc = "absent"
    /\ close("close", answer)
    /\ UNCHANGED <<inBlock, storePc, created, sqlLog, config>>
    /\ UNCHANGED <<runnerVars, storeVars, diffVars, parseVars, runVars>>

\* with client: -- DatabricksClient.__enter__
Enter(answer) ==
    /\ storePc = "absent"
    /\ ~inBlock
    /\ connect("__enter__", answer)
    /\ inBlock' = (clientCall'.raised = NoException)
    /\ UNCHANGED <<storePc, stops, sqlLog, config>>
    /\ UNCHANGED <<runnerVars, storeVars, diffVars, parseVars, runVars>>

\* the with block is left, normally or by an exception:
\* DatabricksClient.__exit__
Exit(answer) ==
    /\ storePc = "absent"
    /\ inBlock
    /\ close("__exit__", answer)
    /\ inBlock' = FALSE
    /\ UNCHANGED <<storePc, created, sqlLog, config>>
    /\ UNCHANGED <<runnerVars, storeVars, diffVars, parseVars, runVars>>

\* the names a Config can carry
IdentifierPool ==
    { <<"c">>, <<"_", "1">>, <<"Z", "a", "0">>, <<>>, <<"1", "a">>,
      <<"a", "-", "c">>, <<"a", " ", "c">>, <<"c", "\n">>,
      <<"c", "\n", "\n">>, <<"c", "\n", "a">> }
DefaultConfig == [catalog |-> <<"c">>, schema |-> <<"_", "1">>,
                  state_table |-> <<"Z", "a", "0">>]
Configs ==
    {cfg \in [catalog : IdentifierPool, schema : IdentifierPool,
              state_table : IdentifierPool] :
        Cardinality({f \in DOMAIN cfg : cfg[f] # DefaultConfig[f]}) <= 1}

\* the first exception of a list of validations
FirstRaised(checks) ==
    IF \E i \in DOMAIN checks : checks[i] # NoException
    THEN checks[CHOOSE i \in DOMAIN checks :
                    /\ checks[i] # NoException
                    /\ \A j \in 1..(i - 1) : checks[j] = NoException]
    ELSE NoException

\* DatabricksMigrationStateStore(config): the constructor
StoreConstruct(cfg, connectAnswer, createAnswer) ==
    /\ storePc = "absent"
    /\ clientCall.op = "none"
    /\ config' = cfg
    /\ LET invalid == FirstRaised(<<validate_identifier(cfg.catalog, "catalog"),
                                    validate_identifier(cfg.schema, "schema"),
                                    validate_identifier(cfg.state_table, "state_table")>>)
       IN IF invalid # NoException
          THEN /\ clientCall' = ClientCall("DatabricksMigrationStateStore", invalid)
               /\ storePc' = "failed"
               /\ UNCHANGED <<session, created, sqlLog>>
          ELSE IF connectAnswer # NoException
          THEN /\ clientCall' = ClientCall("DatabricksMigrationStateStore", connectAnswer)
               /\ storePc' = "failed"
               /\ UNCHANGED <<session, created, sqlLog>>
          ELSE /\ created' = created + 1
               /\ session' = created + 1
               /\ sqlLog' = Append(sqlLog, [session |-> created + 1,
                                            sql |-> create_table_sql(cfg)])
               /\ clientCall' = ClientCall("DatabricksMigrationStateStore", createAnswer)
               /\ storePc' = IF createAnswer = NoException THEN "open" ELSE "failed"
    /\ UNCHANGED <<inBlock, stops>>
    /\ UNCHANGED <<runnerVars, storeVars, diffVars, parseVars, runVars>>

\* store.list_applied()
StoreListApplied(answer) ==
    /\ storePc \in {"open", "closed"}
    /\ statement("list_applied",
                 "SELECT version, name, checksum, applied_at, success, error FROM "
                 \o state_table_fqn(config) \o " ORDER BY version ASC", answer)
    /\ UNCHANGED <<session, inBlock, storePc, created, stops, config>>
    /\ UNCHANGED <<runnerVars, storeVars, diffVars, parseVars, runVars>>

\* store.get_last_applied()
StoreGetLastApplied(answer) ==
    /\ storePc \in {"open", "closed"}
    /\ statement("get_last_applied",
                 "SELECT version, name, checksum, applied_at, success, error FROM "
                 \o state_table_fqn(config) \o " ORDER BY version DESC LIMIT 1",
                 answer)
    /\ UNCHANGED <<session, inBlock, storePc, created, stops, config>>
    /\ UNCHANGED <<runnerVars, storeVars, diffVars, parseVars, runVars>>

\* store.has_applied(version)
StoreHasApplied(version, answer) ==
    /\ storePc \in {"open", "closed"}
    /\ statement("has_applied",
                 "SELECT version FROM " \o state_table_fqn(config)
                 \o " WHERE version = " \o ToString(version), answer)
    /\ UNCHANGED <<session, inBlock, storePc, created, stops, config>>
    /\ UNCHANGED <<runnerVars, storeVars, diffVars, parseVars, runVars>>

\* state.py _escape_sql_string, on a text held as a sequence of tokens
state_escape_sql_string(text) == Replace(text, "'", "''")

\* q(v) of DatabricksMigrationStateStore.record_applied
q(text) == "'" \o Text(state_escape_sql_string(text)) \o "'"

\* the SELECT of DatabricksMigrationStateStore._get_by_version
get_by_version_sql(cfg, version) ==
    "SELECT version, name, checksum, applied_at, success, error FROM "
    \o state_table_fqn(cfg) \o " WHERE version = " \o ToString(version)

\* the INSERT of DatabricksMigrationStateStore.record_applied; error is
\* Nothing for None
insert_sql(cfg, version, name, checksum, success, error) ==
    LET error_value == IF error # Nothing THEN q(error[1]) ELSE "NULL"
        success_value == IF success THEN "true" ELSE "false"
    IN  "INSERT INTO " \o state_table_fqn(cfg) \o " "
        \o "(version, name, checksum, applied_at, success, error) VALUES "
        \o "(" \o ToString(version) \o ", " \o q(name) \o ", " \o q(checksum)
        \o ", current_timestamp(), " \o success_value \o ", " \o error_value
        \o ")"

\* the arguments callers pass to store.record_applied, as sequences of
\* tokens; the error text holds a quote
RecordVersions == {1}
RecordNames == {<<"create_users">>}
RecordChecksums == {<<"abc">>, <<"different">>}
RecordResults == {<<TRUE, Nothing>>, <<FALSE, Some(<<"can", "'", "t">>)>>}

\* store.record_applied(version, name, checksum, success, error):
\* selectAnswer is what the fetchall of _get_by_version does, insertAnswer
\* what the execute of the INSERT does; the rows the SELECT returns are those
\* of the state table, and an INSERT that goes through adds its row
StoreRecordApplied(version, name, checksum, success, error, selectAnswer, insertAnswer) ==
    /\ storePc \in {"open", "closed"}
    /\ LET existing == get_by_version(table, version)
           res == db_record_applied(table, version, Text(name), Text(checksum),
                                    success,
                                    IF error = Nothing THEN None
                                    ELSE Text(error[1]),
                                    now)
           select == [session |-> session,
                      sql |-> get_by_version_sql(config, version)]
           insert == [session |-> session,
                      sql |-> insert_sql(config, version, name, checksum,
                                         success, error)]
       IN  IF session = NoSession
           THEN /\ clientCall' = ClientCall("record_applied",
                                     Exception("RuntimeError",
                                               "Not connected. Call connect() first."))
                /\ UNCHANGED <<sqlLog, table, now>>
           ELSE IF selectAnswer # NoException
           THEN /\ Len(sqlLog) < MaxStatements
                /\ sqlLog' = Append(sqlLog, select)
                /\ clientCall' = ClientCall("record_applied", selectAnswer)
                /\ UNCHANGED <<table, now>>
           ELSE IF existing # <<>>
           THEN /\ Len(sqlLog) < MaxStatements
                /\ sqlLog' = Append(sqlLog, select)
                /\ clientCall' = ClientCall("record_applied", res.raised)
                /\ UNCHANGED <<table, now>>
           ELSE /\ Len(sqlLog) + 1 < MaxStatements
                /\ sqlLog' = sqlLog \o <<select, insert>>
                /\ clientCall' = ClientCall("record_applied", insertAnswer)
                /\ table' = IF insertAnswer = NoException THEN res.store ELSE table
                /\ now' = now + 1
    /\ UNCHANGED <<session, inBlock, storePc, created, stops, config>>
    /\ UNCHANGED <<revision, applied, pc, pending, dry_run, migrations,
                   appliedAtStart, executed, recorded, outcome, execCount>>
    /\ UNCHANGED <<backend, call>>
    /\ UNCHANGED <<diffVars, parseVars, runVars>>

\* store.close(), and store.__exit__ at the end of a with block
StoreClose(op, answer) ==
    /\ storePc \in {"open", "closed"}
    /\ close(op, answer)
    /\ storePc' = "closed"
    /\ UNCHANGED <<inBlock, created, sqlLog, config>>
    /\ UNCHANGED <<runnerVars, storeVars, diffVars, parseVars, runVars>>

InitClient ==
    /\ RunnerIdle
    /\ StoreEmpty
    /\ backend = "memory"
    /\ DifferIdle
    /\ ClientIdle
    /\ ParserIdle
    /\ RunIdle

NextClient ==
    \/ \E answer \in SessionAnswers : Connect(answer)
    \/ \E sql \in Statements, answer \in SessionAnswers : Execute(sql, answer)
    \/ \E sql \in Statements, answer \in SessionAnswers : Fetchall(sql, answer)
    \/ \E answer \in SessionAnswers : Close(answer)
    \/ \E answer \in SessionAnswers : Enter(answer)
    \/ \E answer \in SessionAnswers : Exit(answer)
    \/ \E cfg \in Configs, connectAnswer, createAnswer \in SessionAnswers :
          StoreConstruct(cfg, connectAnswer, createAnswer)
    \/ \E answer \in SessionAnswers : StoreListApplied(answer)
    \/ \E answer \in SessionAnswers : StoreGetLastApplied(answer)
    \/ \E version \in RecordVersions, answer \in SessionAnswers :
          StoreHasApplied(version, answer)
    \/ \E version \in RecordVersions, name \in RecordNames,
          checksum \in RecordChecksums, r \in RecordResults,
          selectAnswer, insertAnswer \in SessionAnswers :
          StoreRecordApplied(version, name, checksum, r[1], r[2],
                             selectAnswer, insertAnswer)
    \/ \E op \in {"close", "__exit__"}, answer \in SessionAnswers :
          StoreClose(op, answer)

\* every session the object opened has been stopped and none is held
SessionsReleased ==
    /\ session = NoSession
    /\ \A id \in 1..created : stops[id] >= 1

\* C17: after a DatabricksClient with block is left, normally or by an
\* exception, and after a DatabricksMigrationStateStore is left, by close,
\* by the end of its with block or by an exception of its constructor at any
\* step after connect(), no session the object opened remains open.
SessionsReleasedOnEveryExitPath ==
    /\ (storePc = "absent" /\ clientCall.op = "__exit__") => SessionsReleased
    /\ storePc \in {"closed", "failed"} => SessionsReleased

AlreadyConnected ==
    Exception("RuntimeError", "Already connected. Call close() before reconnecting.")
NotConnected ==
    Exception("RuntimeError", "Not connected. Call connect() first.")

\* C18: connect() while connected raises RuntimeError and leaves the session
\* in place without opening another; execute() and fetchall() while
\* disconnected raise RuntimeError; close() leaves the client disconnected
\* and no session is ever stopped twice, however many times close() is
\* called; connect() on a disconnected client is not refused.
ConnectedDisconnectedProtocol ==
    /\ (clientCall.op \in {"connect", "__enter__"} /\ clientCall.before # NoSession)
          => /\ clientCall.raised.type = "RuntimeError"
             /\ session = clientCall.before
             /\ created = clientCall.before
             /\ stops[clientCall.before] = 0
    /\ (clientCall.op \in {"connect", "__enter__"} /\ clientCall.before = NoSession)
          => /\ clientCall.raised # AlreadyConnected
             /\ clientCall.raised = NoException => session = created /\ stops[session] = 0
    /\ (clientCall.op \in {"execute", "fetchall"} /\ clientCall.before = NoSession)
          => /\ clientCall.raised.type = "RuntimeError"
             /\ session = NoSession
    /\ clientCall.op \in {"close", "__exit__"}
          => /\ session = NoSession
             /\ clientCall.before # NoSession => stops[clientCall.before] = 1
    /\ \A id \in 1..MaxSessions : stops[id] <= 1

\* connect, close, connect, close and one more close: both sessions were
\* stopped once and the last close found the client disconnected
RepeatedCloseWitness ==
    /\ storePc = "absent"
    /\ clientCall.op = "close"
    /\ clientCall.before = NoSession
    /\ created = 2
    /\ stops[1] = 1
    /\ stops[2] = 1

\* the identifier pattern: letters, digits and underscore, not starting with
\* a digit
IsIdentifier(chars) ==
    /\ chars # <<>>
    /\ chars[1] \notin Digits
    /\ \A i \in DOMAIN chars : chars[i] \in Letters \cup Digits \cup {"_"}

\* C19: when the catalog, the schema or the state table name of the Config is
\* not an identifier, the constructor of DatabricksMigrationStateStore raises
\* ConfigError, and no session is opened and no statement is executed.
InvalidIdentifierRaisesBeforeUse ==
    ( /\ clientCall.op = "DatabricksMigrationStateStore"
      /\ \/ ~IsIdentifier(config.catalog)
         \/ ~IsIdentifier(config.schema)
         \/ ~IsIdentifier(config.state_table) )
    => /\ clientCall.raised.type = "ConfigError"
       /\ created = 0
       /\ sqlLog = <<>>

\* C22: in the list diff returns, every DROP_COLUMN and every DROP_TABLE is
\* destructive and no ADD_COLUMN is; every DROP_COLUMN requires column
\* mapping and its details hold the column name and nothing else.
DropsAreDestructiveAddsAreNot ==
    diffPc # "editing" =>
        \A i \in DOMAIN changes :
            /\ changes[i].change_type \in {"DROP_COLUMN", "DROP_TABLE"}
                  => changes[i].is_destructive = TRUE
            /\ changes[i].change_type = "ADD_COLUMN"
                  => changes[i].is_destructive = FALSE
            /\ changes[i].change_type = "DROP_COLUMN"
                  => /\ changes[i].requires_column_mapping = TRUE
                     /\ DOMAIN changes[i].details = {"column_name"}
                     /\ changes[i].details.column_name
                            \in DOMAIN SourceColumns \ DOMAIN TargetColumns

\* a diff that adds one column and drops another
AddAndDropColumnWitness ==
    /\ DiffedBoth
    /\ ChangesOfKind("ADD_COLUMN") # {}
    /\ ChangesOfKind("DROP_COLUMN") # {}

\* the priority buckets of the specification, kinds outside the table last
Bucket(kind) ==
    CASE kind = "CREATE_TABLE" -> 0
      [] kind = "ADD_COLUMN" -> 1
      [] kind \in {"ALTER_COLUMN_TYPE", "ALTER_COLUMN_NULLABILITY",
                   "ALTER_COLUMN_DEFAULT"} -> 2
      [] kind \in {"SET_PRIMARY_KEY", "ADD_CHECK_CONSTRAINT"} -> 3
      [] kind \in {"ALTER_CLUSTERING", "ALTER_TABLE_PROPERTIES"} -> 4
      [] kind \in {"DROP_CHECK_CONSTRAINT", "DROP_PRIMARY_KEY"} -> 5
      [] kind = "DROP_COLUMN" -> 6
      [] kind = "DROP_TABLE" -> 7
      [] kind = "ALTER_PARTITIONING" -> 8

\* the pairs of kinds of one bucket that _diff_table emits in a fixed order
\* for one table: the first of each pair is appended before the second
EmittedInOrder ==
    {<<"ALTER_COLUMN_TYPE", "ALTER_COLUMN_NULLABILITY">>,
     <<"ALTER_COLUMN_TYPE", "ALTER_COLUMN_DEFAULT">>,
     <<"ALTER_COLUMN_NULLABILITY", "ALTER_COLUMN_DEFAULT">>,
     <<"SET_PRIMARY_KEY", "ADD_CHECK_CONSTRAINT">>,
     <<"ALTER_CLUSTERING", "ALTER_TABLE_PROPERTIES">>,
     <<"DROP_PRIMARY_KEY", "DROP_CHECK_CONSTRAINT">>}

\* the column a change is about, None when it is about no single column
ColumnOf(change) ==
    IF change.change_type \in {"ALTER_COLUMN_TYPE", "ALTER_COLUMN_NULLABILITY",
                               "ALTER_COLUMN_DEFAULT"}
    THEN change.details.column_name ELSE None

\* C23: the list diff returns is in bucket order over all tables, and within
\* a bucket the changes keep the order they were emitted in: for one table
\* and one column, type before nullability before default; primary key set
\* before checks added; clustering before properties; primary key dropped
\* before checks dropped.
ChangesInBucketOrderStable ==
    diffPc # "editing" =>
        \A i, j \in DOMAIN changes :
            i < j =>
                /\ Bucket(changes[i].change_type) <= Bucket(changes[j].change_type)
                /\ ( /\ changes[i].table_name = changes[j].table_name
                     /\ ColumnOf(changes[i]) = ColumnOf(changes[j]) )
                      => <<changes[j].change_type, changes[i].change_type>>
                             \notin EmittedInOrder

\* a diff over two tables in which the sort moved a change: DROP_TABLE of one
\* table is appended before the ADD_COLUMN of another and returned after it
BucketOrderWitness ==
    /\ diffPc = "diffed"
    /\ Len(changes) = 2
    /\ changes[1].change_type = "ADD_COLUMN"
    /\ changes[2].change_type = "DROP_TABLE"
    /\ changes[1].table_name # changes[2].table_name

\* the table and column names of the model as sorted() orders them
Alphabetical == <<"_temp_staging", "amount", "email", "id", "orders", "users">>
Rank(name) == CHOOSE i \in DOMAIN Alphabetical : Alphabetical[i] = name

\* C24: whatever order the sets of names are iterated in, diff returns the
\* same list: its CREATE_TABLE changes are sorted by table name and the
\* ADD_COLUMN changes of one table are sorted by column name.
DiffOutputSortedByName ==
    diffPc # "editing" =>
        \A i, j \in DOMAIN changes :
            i < j =>
                /\ ( /\ changes[i].change_type = "CREATE_TABLE"
                     /\ changes[j].change_type = "CREATE_TABLE" )
                      => Rank(changes[i].table_name) < Rank(changes[j].table_name)
                /\ ( /\ changes[i].change_type = "ADD_COLUMN"
                     /\ changes[j].change_type = "ADD_COLUMN"
                     /\ changes[i].table_name = changes[j].table_name )
                      => Rank(changes[i].details.column.name)
                             < Rank(changes[j].details.column.name)

\* the primary keys of the edited table, as Optional values
SourceKey == source[Edited].primary_key
TargetKey == target[Edited].primary_key

\* C25: for a table of both schemas, equal primary keys give no primary-key
\* change; keys that differ, be it by the order of their columns or by the
\* rely flag alone, give exactly one DROP_PRIMARY_KEY when the source has a key
\* and none otherwise, and exactly one SET_PRIMARY_KEY when the target has a
\* key and none otherwise, each carrying the key it is about.
PrimaryKeyComparedAsAWhole ==
    DiffedBoth =>
        LET drops == ChangesOfKind("DROP_PRIMARY_KEY")
            sets  == ChangesOfKind("SET_PRIMARY_KEY")
        IN  IF SourceKey = TargetKey
            THEN drops = {} /\ sets = {}
            ELSE /\ Cardinality(drops) = IF SourceKey # Nothing THEN 1 ELSE 0
                 /\ Cardinality(sets) = IF TargetKey # Nothing THEN 1 ELSE 0
                 /\ \A i \in drops : changes[i].details.constraint = SourceKey[1]
                 /\ \A i \in sets : changes[i].details.constraint = TargetKey[1]

\* the two keys have the same columns in another order, and the diff holds a
\* drop and a set
ReorderedKeyWitness ==
    /\ DiffedBoth
    /\ SourceKey # Nothing
    /\ TargetKey # Nothing
    /\ SourceKey[1].columns # TargetKey[1].columns
    /\ Range(SourceKey[1].columns) = Range(TargetKey[1].columns)
    /\ SourceKey[1].rely = TargetKey[1].rely
    /\ ChangesOfKind("DROP_PRIMARY_KEY") # {}
    /\ ChangesOfKind("SET_PRIMARY_KEY") # {}

\* C26: when the primary key of a table changes from one key to another, the
\* DROP_PRIMARY_KEY of the table comes before its SET_PRIMARY_KEY in the list
\* diff returns.
DropPrimaryKeyPrecedesSet ==
    (DiffedBoth /\ SourceKey # Nothing /\ TargetKey # Nothing /\ SourceKey # TargetKey)
        => \A i \in ChangesOfKind("DROP_PRIMARY_KEY"),
              j \in ChangesOfKind("SET_PRIMARY_KEY") : i < j

\* C30: when diff returns the empty list, every table of the target is a
\* table of the source and the two are equal under Table.__eq__.
EmptyDiffMeansEqualTables ==
    (diffPc # "editing" /\ changes = <<>>) =>
        \A name \in DOMAIN target :
            /\ name \in DOMAIN source
            /\ table_eq(source[name], target[name])

\* C27: over any sequence of apply runs, the executor is not invoked for a
\* version while a lower version is recorded as failed: a run that follows a
\* failure at version f does not execute the versions above f.
NoExecutionAboveFailedVersion ==
    \A i \in DOMAIN executed :
        \A u \in DOMAIN appliedAtStart :
            u < executed[i].version => appliedAtStart[u].success = TRUE

(***************************************************************************)
(* Runner.apply on a state store whose record_applied can raise            *)
(***************************************************************************)
\* what the store can answer a record_applied call with
StoreErrors == {Exception("Exception", "state table unavailable")}
StoreAnswers == {NoException} \cup StoreErrors

\* one iteration of the loop of apply on such a store
ApplyStepStoreRaising(exc, okAnswer, failAnswer) ==
    /\ pc = "loop"
    /\ ~dry_run
    /\ LET pm  == Head(pending)
           res == apply_iteration_raising(applied, pm, exc, now, okAnswer, failAnswer)
       IN  /\ executed' = Append(executed,
                                 [sql |-> substitute_variables(pm.sql),
                                  version |-> pm.version, raised |-> exc])
           /\ execCount' = [execCount EXCEPT ![pm.version] = Bump(@)]
           /\ applied' = res.store
           /\ recorded' = recorded \o res.calls
           /\ IF res.raised # NoException
              THEN /\ outcome' = res.raised
                   /\ pending' = Tail(pending)
                   /\ pc' = "done"
              ELSE /\ pending' = Tail(pending)
                   /\ IF pending' = <<>>
                      THEN outcome' = Outcome("returned") /\ pc' = "done"
                      ELSE UNCHANGED <<outcome, pc>>
    /\ UNCHANGED <<revision, now, dry_run, migrations, appliedAtStart>>
    /\ UNCHANGED storeVars
    /\ UNCHANGED <<diffVars, clientVars, parseVars, runVars>>

NextRaising ==
    \/ \E order \in Orders : ApplyBegin(order, FALSE)
    \/ \E exc \in {NoException} \cup ExecutorErrors, okAnswer, failAnswer \in StoreAnswers :
          ApplyStepStoreRaising(exc, okAnswer, failAnswer)
    \/ ApplyFinished

\* C28: whatever the store does to record_applied, a version is recorded, or
\* attempted to be recorded, with success=false only when the executor raised
\* for it.
FailureRecordedOnlyWhenExecutorRaised ==
    \A k \in DOMAIN recorded :
        recorded[k].success = FALSE =>
            \E i \in DOMAIN executed :
                /\ executed[i].version = recorded[k].version
                /\ executed[i].raised # NoException

\* the placeholder tokens of migration files
Placeholders == {"${catalog}", "${schema}"}

\* the supplied file with version v
SuppliedFile(v) == migrations[CHOOSE i \in DOMAIN migrations : migrations[i].version = v]

\* C21: the SQL the executor is invoked with is the SQL of the migration file
\* with each ${catalog} replaced by the runner's catalog and each ${schema} by
\* its schema, so it holds no placeholder; the file's text keeps its
\* placeholders, and the checksum recorded is that of the file's text.
ExecutedSqlHasPlaceholdersResolved ==
    \A i \in DOMAIN executed :
        LET mf == SuppliedFile(executed[i].version)
        IN  /\ Len(executed[i].sql) = Len(mf.sql)
            /\ \A k \in DOMAIN mf.sql :
                  executed[i].sql[k] = CASE mf.sql[k] = "${catalog}" -> Catalog
                                         [] mf.sql[k] = "${schema}" -> SchemaName
                                         [] OTHER -> mf.sql[k]
            /\ Range(executed[i].sql) \cap Placeholders = {}
            /\ mf = files[mf.version]
            /\ mf.checksum = compute_checksum(mf.sql)
            /\ \A k \in DOMAIN recorded :
                  recorded[k].version = mf.version => recorded[k].checksum = mf.checksum

\* a migration whose text holds both placeholders was executed and recorded
PlaceholdersResolvedWitness ==
    /\ executed # <<>>
    /\ Placeholders \subseteq Range(SuppliedFile(executed[1].version).sql)
    /\ Catalog \in Range(executed[1].sql)
    /\ SchemaName \in Range(executed[1].sql)
    /\ executed[1].version \in DOMAIN applied
    /\ applied[executed[1].version].checksum
          = compute_checksum(SuppliedFile(executed[1].version).sql)

(***************************************************************************)
(* the migrations directory and parse_migrations_dir                       *)
(***************************************************************************)
\* a file is written to the migrations directory
WriteFile(name, content) ==
    /\ parsePc = "editing"
    /\ fileEdits < MaxFileEdits
    /\ directory[name] # Some(content)
    /\ directory' = [directory EXCEPT ![name] = Some(content)]
    /\ fileEdits' = fileEdits + 1
    /\ UNCHANGED <<parsePc, parsed>>
    /\ UNCHANGED <<runnerVars, storeVars, diffVars, clientVars, runVars>>

\* a file of the migrations directory is deleted
DeleteFile(name) ==
    /\ parsePc = "editing"
    /\ fileEdits < MaxFileEdits
    /\ directory[name] # Nothing
    /\ directory' = [directory EXCEPT ![name] = Nothing]
    /\ fileEdits' = fileEdits + 1
    /\ UNCHANGED <<parsePc, parsed>>
    /\ UNCHANGED <<runnerVars, storeVars, diffVars, clientVars, runVars>>

\* parse_migrations_dir(directory); glob yields the files in any order
ParseMigrationsDir(order) ==
    /\ parsePc = "editing"
    /\ parsePc' = "parsed"
    /\ parsed' = parse_migrations_dir(directory, order)
    /\ UNCHANGED <<directory, fileEdits>>
    /\ UNCHANGED <<runnerVars, storeVars, diffVars, clientVars, runVars>>

InitParse ==
    /\ RunnerIdle
    /\ StoreEmpty
    /\ backend = "memory"
    /\ DifferIdle
    /\ ClientIdle
    /\ ParserIdle
    /\ RunIdle

NextParse ==
    \/ \E name \in FilenamePool, content \in ContentPool : WriteFile(name, content)
    \/ \E name \in FilenamePool : DeleteFile(name)
    \/ \E order \in IterationOrders(glob(directory)) : ParseMigrationsDir(order)

\* the files of the migrations directory, and those whose name matches
\* V<version>__<name>.sql
Present == {name \in FilenamePool : directory[name] # Nothing}
Matching == {name \in Present : filename_match(name) # Nothing}
VersionOf(name) == int(filename_match(name)[1].version_str)

\* C20: parse_migrations_dir returns the matching files of the directory, each
\* with the number its file name carries, in strictly ascending order of that
\* number, hence with pairwise distinct versions; it raises
\* MigrationParseError when two matching files carry the same number, whatever
\* their names and zero padding; files that do not match are left out; an
\* empty directory gives the empty list.
ParseDirSortedDistinctOrRejected ==
    parsePc = "parsed" =>
        /\ parsed.raised = NoException =>
              /\ \A i, j \in DOMAIN parsed.value :
                    i < j => parsed.value[i].version < parsed.value[j].version
              /\ {parsed.value[i].path : i \in DOMAIN parsed.value} = Matching
              /\ \A i \in DOMAIN parsed.value :
                    parsed.value[i].version = VersionOf(parsed.value[i].path)
        /\ (\E m, n \in Matching : m # n /\ VersionOf(m) = VersionOf(n))
              => parsed.raised.type = "MigrationParseError"
        /\ Present = {} => parsed = Gives(<<>>)

\* V2__a.sql, V10__b.sql and notes.sql were parsed: V2 comes before V10 and
\* notes.sql is left out
NumericOrderWitness ==
    /\ parsePc = "parsed"
    /\ parsed.raised = NoException
    /\ Present \ Matching # {}
    /\ Len(parsed.value) = 2
    /\ parsed.value[1].version = 2
    /\ parsed.value[1].path = <<"V", "2", "_", "_", "a", ".", "s", "q", "l">>
    /\ parsed.value[2].version = 10

(***************************************************************************)
(* cli.py cmd_run and databricks/utils.py split_sql_statements             *)
(***************************************************************************)
\* the tokens migration files are written with: a comment up to the end of
\* its line, as codegen.py writes before each statement, the end of a line,
\* a blank, the statement separator, and SQL text.  A token is either white
\* space or has no white space at either end, so that stripping the white
\* space tokens of a part strips the white space characters of its text.
CommentToken == "-- add_column: users"
TokenPool == {CommentToken, "\n", " ", ";", "USE", "${catalog}"}

\* sql.split(";"): the parts between the separators, empty parts included
RECURSIVE SplitTokens(_, _)
SplitTokens(tokens, sep) ==
    IF \A i \in DOMAIN tokens : tokens[i] # sep THEN <<tokens>>
    ELSE LET first == CHOOSE i \in DOMAIN tokens :
                          /\ tokens[i] = sep
                          /\ \A j \in 1..(i - 1) : tokens[j] # sep
         IN  <<SubSeq(tokens, 1, first - 1)>>
             \o SplitTokens(SubSeq(tokens, first + 1, Len(tokens)), sep)

\* part.strip(): the part without its leading and trailing white space
RECURSIVE lstrip_whitespace(_)
lstrip_whitespace(text) ==
    IF text # <<>> /\ Head(text) \in Whitespace
    THEN lstrip_whitespace(Tail(text)) ELSE text

RECURSIVE strip_whitespace(_)
strip_whitespace(text) ==
    IF text # <<>> /\ text[Len(text)] \in Whitespace
    THEN strip_whitespace(SubSeq(text, 1, Len(text) - 1))
    ELSE lstrip_whitespace(text)

\* stmt.startswith("--")
startswith_dashes(stmt) == stmt # <<>> /\ Head(stmt) = CommentToken

\* databricks/utils.py split_sql_statements
split_sql_statements(sql) ==
    LET parts == SplitTokens(sql, ";")
        stmts == [i \in DOMAIN parts |-> strip_whitespace(parts[i])]
    IN  SelectSeq(stmts, LAMBDA stmt : stmt # <<>> /\ ~startswith_dashes(stmt))

\* somebody writes one more token to the migration file
WriteToken(token) ==
    /\ runPc = "editing"
    /\ Len(script) < MaxTokens
    /\ script' = Append(script, token)
    /\ UNCHANGED <<runPc, statements, runRecord>>
    /\ UNCHANGED <<runnerVars, storeVars, diffVars, clientVars, parseVars>>

\* ucmt run with the file as the one pending migration: parse_migration_file
\* rejects a blank file; Runner.apply substitutes the variables and calls the
\* executor of cmd_run, which passes the statements to client.execute one by
\* one; failAt is the statement client.execute raises on, 0 when it raises
\* on none; the migration is recorded as a success when the executor returns
Run(failAt) ==
    /\ runPc = "editing"
    /\ runPc' = "ran"
    /\ IF IsBlank(read_text(script))
       THEN /\ failAt = 0
            /\ statements' = <<>>
            /\ runRecord' = "parse_error"
       ELSE LET stmts == split_sql_statements(substitute_variables(read_text(script)))
            IN  /\ failAt \in 0..Len(stmts)
                /\ statements' = IF failAt = 0 THEN stmts ELSE SubSeq(stmts, 1, failAt)
                /\ runRecord' = IF failAt = 0 THEN "success" ELSE "failed"
    /\ UNCHANGED script
    /\ UNCHANGED <<runnerVars, storeVars, diffVars, clientVars, parseVars>>

InitRun ==
    /\ RunnerIdle
    /\ StoreEmpty
    /\ backend = "memory"
    /\ DifferIdle
    /\ ClientIdle
    /\ ParserIdle
    /\ RunIdle

NextRun ==
    \/ \E token \in TokenPool : WriteToken(token)
    \/ \E failAt \in 0..MaxTokens : Run(failAt)

\* the text without its comments: a comment runs to the end of its line
RECURSIVE Uncommented(_, _)
Uncommented(tokens, inComment) ==
    IF tokens = <<>> THEN <<>>
    ELSE IF Head(tokens) = "\n" THEN <<"\n">> \o Uncommented(Tail(tokens), FALSE)
    ELSE IF inComment \/ Head(tokens) = CommentToken THEN Uncommented(Tail(tokens), TRUE)
    ELSE <<Head(tokens)>> \o Uncommented(Tail(tokens), FALSE)

\* the SQL text of a sequence of tokens: neither comment, white space nor
\* separator
SqlTokens(tokens) ==
    SelectSeq(Uncommented(tokens, FALSE), LAMBDA t : t \notin Whitespace \cup {";"})

\* the statements passed to client.execute, as one text
RECURSIVE ExecutedText(_)
ExecutedText(stmts) ==
    IF stmts = <<>> THEN <<>> ELSE Head(stmts) \o <<"\n">> \o ExecutedText(Tail(stmts))

\* a is b with some elements left out
RECURSIVE IsSubsequence(_, _)
IsSubsequence(a, b) ==
    IF a = <<>> THEN TRUE
    ELSE IF b = <<>> THEN FALSE
    ELSE IF Head(a) = Head(b) THEN IsSubsequence(Tail(a), Tail(b))
    ELSE IsSubsequence(a, Tail(b))

\* C29: when the run command records the migration as a success, all the SQL
\* text of the file, its variables substituted, has been passed to
\* client.execute in file order, the statements that follow comment lines
\* within their segment included.
RunExecutesEveryStatement ==
    (runPc = "ran" /\ runRecord = "success") =>
        IsSubsequence(SqlTokens(substitute_variables(script)),
                      SqlTokens(ExecutedText(statements)))

vars == <<runnerVars, storeVars, diffVars, clientVars, parseVars, runVars>>

Spec == Init /\ [][Next]_vars

SpecStore == InitStore /\ [][NextStore]_vars

SpecDiff == InitDiff /\ [][NextDiff]_vars
SpecClient == InitClient /\ [][NextClient]_vars
SpecParse == InitParse /\ [][NextParse]_vars
SpecRaising == Init /\ [][NextRaising]_vars
SpecRun == InitRun /\ [][NextRun]_vars

====
